---- MODULE Spec2Model ----
(***************************************************************************)
(* img-router: the generation orchestrator (handlers/edits.ts,             *)
(* handlers/chat.ts), the provider adapters' result construction, the      *)
(* error classifier (core/logger.ts) and the credential pool               *)
(* (config/manager.ts, known here only through its callers).               *)
(*                                                                         *)
(* A handler is an async function: it runs to completion between two       *)
(* awaits, so each action below is one such segment of a handler.          *)
(***************************************************************************)
EXTENDS Integers, Sequences, FiniteSets, Bags, TLC

(***************************************************************************)
(* Bounds of the model                                                     *)
(***************************************************************************)
NumKeys == 2
MaxImages == 2
MaxInputImages == 4
NumRequests == 2

\* The largest number of keyword classes of which an error body contains a keyword.
MaxKeywords == 2

\* The largest number of entries of the list given to the image normalizer.
MaxListLength == 2

Keys == 1..NumKeys

(***************************************************************************)
(* Providers (registry order) and the part of their capability descriptor  *)
(* that validateRequest reads.                                             *)
(***************************************************************************)
Providers == {"Doubao", "Gitee", "ModelScope"}
NoProvider == "none"

\* The key the caller sent (relay mode); pool keys are 1..NumKeys.
CallerKey == 0

(***************************************************************************)
(* Error classifier, core/logger.ts                                        *)
(***************************************************************************)
KeywordClasses ==
    {"noAvailableKey", "rateLimit", "databaseError", "moderation", "timeout", "badRequest"}

ErrorTypes ==
    {"moderation_blocked", "bad_request", "internal_error", "timeout",
     "no_available_key", "rate_limit", "unknown"}

\* containsKeywords(errorText, ERROR_PATTERNS.<class>): the text is modelled
\* by the set of keyword classes of which it contains a keyword.
containsKeywords(text, class) == class \in text

identifyErrorType_StatusFirst(text, statusCode) ==
    IF statusCode = 429 THEN "rate_limit"
    ELSE IF containsKeywords(text, "noAvailableKey") THEN "no_available_key"
    ELSE IF containsKeywords(text, "rateLimit") THEN "rate_limit"
    ELSE IF containsKeywords(text, "databaseError") THEN "internal_error"
    ELSE IF containsKeywords(text, "moderation") THEN "moderation_blocked"
    ELSE IF containsKeywords(text, "timeout") THEN "timeout"
    ELSE IF containsKeywords(text, "badRequest") THEN "bad_request"
    ELSE IF statusCode = 400 THEN "bad_request"
    ELSE IF statusCode \in {500, 502, 503} THEN "internal_error"
    ELSE IF statusCode \in {408, 504} THEN "timeout"
    ELSE "unknown"

identifyErrorType(text, statusCode) ==
    IF containsKeywords(text, "noAvailableKey") THEN "no_available_key"
    ELSE IF containsKeywords(text, "rateLimit") THEN "rate_limit"
    ELSE IF containsKeywords(text, "databaseError") THEN "internal_error"
    ELSE IF containsKeywords(text, "moderation") THEN "moderation_blocked"
    ELSE IF containsKeywords(text, "timeout") THEN "timeout"
    ELSE IF containsKeywords(text, "badRequest") THEN "bad_request"
    ELSE IF statusCode # 0 THEN
        IF statusCode = 400 THEN "bad_request"
        ELSE IF statusCode = 500 \/ statusCode = 502 THEN "internal_error"
        ELSE IF statusCode = 503 THEN
            IF containsKeywords(text, "noAvailableKey") THEN "no_available_key"
            ELSE "internal_error"
        ELSE IF statusCode = 408 \/ statusCode = 504 THEN "timeout"
        ELSE IF statusCode = 429 THEN "rate_limit"
        ELSE "unknown"
    ELSE "unknown"

(***************************************************************************)
(* Error messages.  A message is a record: its identity, the set of the    *)
(* substrings, among those the retry loop looks for, that it contains      *)
(*   "429", "rate limit", "zh_rate_limit" (the Chinese for rate limit),    *)
(*   "401", "403", "API Key", "Unauthorized"                               *)
(* and the provider name it is prefixed with ("[Name] "), if any.          *)
(***************************************************************************)
HandlerTokens ==
    {"429", "rate limit", "zh_rate_limit", "401", "403", "API Key", "Unauthorized"}

\* FRIENDLY_MESSAGES: which of the substrings each canned text contains.
\* no_available_key starts with "API Key", rate_limit contains the Chinese
\* for "rate limit"; the other five contain none.
FRIENDLY_MESSAGES ==
    [k \in ErrorTypes |->
        [id |-> k, friendly |-> TRUE,
         tokens |-> IF k = "no_available_key" THEN {"API Key"}
                    ELSE IF k = "rate_limit" THEN {"zh_rate_limit"}
                    ELSE {}, prefix |-> NoProvider]]

(***************************************************************************)
(* An error body, as parseErrorMessage receives it.  After the URL, stack  *)
(* and path clean-up and the JSON extraction the text is either at most    *)
(* CapLength characters long or longer; head are the keyword classes with  *)
(* a keyword inside its first KeptLength characters, tail the classes with *)
(* a keyword only beyond them.                                             *)
(***************************************************************************)
CapLength == 60

KeptLength == 50

ShortBody(classes) == [long |-> FALSE, head |-> classes, tail |-> {}]

\* The keyword classes of which the body contains a keyword.
BodyKeywords(body) == body.head \cup body.tail

\* Step four of parseErrorMessage: a text longer than CapLength characters
\* is cut to (at most) its first KeptLength characters.
CapText(body) == IF body.long THEN body.head ELSE BodyKeywords(body)

\* parseErrorMessage(errorText, statusCode, provider): the canned text of the
\* kind of the capped text, prefixed with the provider name if one is given.
\* The prefix "[Name] " contains none of the substrings.
parseErrorMessage_EchoesUnknown(body, statusCode, provider) ==
    LET errorType == identifyErrorType(CapText(body), statusCode)
    IN  IF errorType = "unknown"
        THEN [id |-> "raw_text", friendly |-> FALSE,
              tokens |-> BodyKeywords(body), prefix |-> provider]
        ELSE [FRIENDLY_MESSAGES[errorType] EXCEPT !.prefix = provider]

parseErrorMessage(body, statusCode, provider) ==
    LET errorType == identifyErrorType(CapText(body), statusCode)
        friendlyMessage == FRIENDLY_MESSAGES[errorType]
    IN  [friendlyMessage EXCEPT !.prefix = provider]

RawMessage(name, toks) ==
    [id |-> name, friendly |-> FALSE, tokens |-> toks, prefix |-> NoProvider]

NoError == [id |-> "none", friendly |-> FALSE, tokens |-> {}, prefix |-> NoProvider]

includes(msg, tok) == tok \in msg.tokens

(***************************************************************************)
(* What the upstream does in one call of provider.generate                 *)
(***************************************************************************)
Statuses == {401, 429, 500}

\* Raw upstream text that reaches an error message unclassified.
RawTokenSets == {{}, {"Unauthorized"}}

\* Non-2xx answers: each status with a body that holds no keyword, and one
\* whose body holds a keyword of the class noAvailableKey.
HttpOutcomes ==
    [t : {"http"}, status : Statuses, text : {{}}]
    \cup {[t |-> "http", status |-> 500, text |-> {"noAvailableKey"}]}

\* t = "ok":        HTTP 200 (or task SUCCEED) carrying n output images
\* t = "http":      non-2xx answer to the (submit) request
\* t = "neterr":    fetchWithTimeout rejects (abort on timeout, network error)
\* t = "pollabort": ModelScope, six status rounds in a row without a valid
\*                  status, the last one an HTTP error of this status
\* t = "taskfail":  ModelScope, task_status FAILED with this reason text
\* t = "tasktimeout": ModelScope, 120 rounds without a terminal status
SyncOutcomes ==
    [t : {"ok"}, n : 0..MaxImages]
    \cup HttpOutcomes
    \cup [t : {"neterr"}]

PollOutcomes ==
    [t : {"pollabort"}, status : Statuses]
    \cup [t : {"taskfail"}, tokens : RawTokenSets]
    \cup [t : {"tasktimeout"}]

Outcomes(p) == IF p = "ModelScope" THEN SyncOutcomes \cup PollOutcomes ELSE SyncOutcomes

NoOutcome == [t |-> "none"]

StatusToken(s) ==
    IF s = 429 THEN {"429"} ELSE IF s = 401 THEN {"401"} ELSE IF s = 403 THEN {"403"} ELSE {}

\* A GenerationResult: fields are the ones of images and error that the
\* returned object has, images the length of its image list (0 without one).
\* An exception (threw) returns no object.
Succeeded(n) ==
    [success |-> TRUE, error |-> NoError, images |-> n, threw |-> FALSE,
     fields |-> {"images"}]

Failed_WithImages(msg) ==
    [success |-> FALSE, error |-> msg, images |-> 0, threw |-> FALSE,
     fields |-> {"error", "images"}]

Failed(msg) ==
    [success |-> FALSE, error |-> msg, images |-> 0, threw |-> FALSE,
     fields |-> {"error"}]

Threw(msg) ==
    [success |-> FALSE, error |-> msg, images |-> 0, threw |-> TRUE, fields |-> {}]

\* DoubaoProvider.generate: everything is inside try/catch; a 200 answer is
\* a success whatever the number of images that survive the filter.
DoubaoGenerate(o) ==
    IF o.t = "http"
        THEN Failed(parseErrorMessage(ShortBody(o.text), o.status, "Doubao"))
    ELSE IF o.t = "neterr" THEN Failed(RawMessage("fetch_error", {}))
    ELSE Succeeded(o.n)

\* GiteeProvider.generate -> handleTextToImage: throws are caught by generate.
GiteeGenerate(o) ==
    IF o.t = "http"
        THEN Failed(parseErrorMessage(ShortBody(o.text), o.status, "Gitee"))
    ELSE IF o.t = "neterr" THEN Failed(RawMessage("fetch_error", {}))
    ELSE IF o.n = 0 THEN Failed(RawMessage("gitee_empty_data", {}))
    ELSE Succeeded(o.n)

\* ModelScopeProvider.generate: no try/catch around submit or status polls,
\* so a rejected fetch leaves generate as an exception.
ModelScopeGenerate(o) ==
    IF o.t = "http"
        THEN Failed(parseErrorMessage(ShortBody(o.text), o.status, "ModelScope"))
    ELSE IF o.t = "neterr" THEN Threw(RawMessage("fetch_error", {}))
    ELSE IF o.t = "pollabort"
        THEN Failed(RawMessage("modelscope_poll_abnormal", StatusToken(o.status)))
    ELSE IF o.t = "taskfail" THEN Failed(RawMessage("modelscope_task_failed", o.tokens))
    ELSE IF o.t = "tasktimeout" THEN Failed(RawMessage("modelscope_task_timeout", {}))
    ELSE Succeeded(o.n)

generate(p, o) ==
    IF p = "Doubao" THEN DoubaoGenerate(o)
    ELSE IF p = "Gitee" THEN GiteeGenerate(o)
    ELSE ModelScopeGenerate(o)

(***************************************************************************)
(* BaseProvider.validateRequest                                            *)
(***************************************************************************)
maxInputImages(p) == IF p = "Doubao" THEN 3 ELSE IF p = "Gitee" THEN 5 ELSE 10
imageToImage(p) == TRUE
multiImageFusion(p) == TRUE

\* request: [prompt : BOOLEAN (non-empty), images : number of input images]
validateRequest(p, request) ==
    IF ~request.prompt /\ request.images = 0 THEN "prompt_or_image_required"
    ELSE IF request.images > maxInputImages(p) THEN "too_many_images"
    ELSE IF request.images > 0 /\ ~imageToImage(p) THEN "no_image_to_image"
    ELSE IF request.images > 1 /\ ~multiImageFusion(p) THEN "no_multi_image_fusion"
    ELSE "ok"

(***************************************************************************)
(* Retry loop's classification of a failed result, handlers/edits.ts       *)
(***************************************************************************)
isRateLimit(lastErr) ==
    includes(lastErr, "429") \/ includes(lastErr, "rate limit")
        \/ includes(lastErr, "zh_rate_limit")

isAuthError(lastErr) ==
    includes(lastErr, "401") \/ includes(lastErr, "403")
        \/ includes(lastErr, "API Key") \/ includes(lastErr, "Unauthorized")

ReportKind(lastErr) ==
    IF isRateLimit(lastErr) THEN "rate_limit"
    ELSE IF isAuthError(lastErr) THEN "auth_error"
    ELSE "other"

maxAttempts_OneMore(backend) == IF backend THEN 4 ELSE 1

maxAttempts(backend) == IF backend THEN 3 ELSE 1

Rejects_Never(verdict) == FALSE

\* if (validationError) return 400.
Rejects(verdict) == verdict # "ok"

\* no break after a success
ShouldRetry_NoBreakOnSuccess(res, backend, att) ==
    backend /\ att < maxAttempts(backend)

\* the backend limit for every mode, and no break in relay mode
ShouldRetry_AllModes(res, backend, att) ==
    ~res.success /\ att < maxAttempts(TRUE)

\* Whether the loop makes another pass after an attempt that returned res:
\* a success breaks, relay mode breaks, and the while condition ends it.
ShouldRetry(res, backend, att) ==
    ~res.success /\ backend /\ att < maxAttempts(backend)

\* the retry's break taken on the first attempt as well
PoolMissResponse_AlwaysBreak(att, lastErr) ==
    [status |-> 500, error |-> lastErr]

\* the pool-exhausted response on every attempt
PoolMissResponse_Always503(att, lastErr) ==
    [status |-> 503, error |-> RawMessage("no_available_keys", {})]

\* What the request ends with when getNextAvailableKey returns nothing on
\* attempt att: a 503 on the first, the last error (thrown after the break
\* and caught as a 500) on a retry.
PoolMissResponse(att, lastErr) ==
    IF att = 1
        THEN [status |-> 503, error |-> RawMessage("no_available_keys", {})]
        ELSE [status |-> 500, error |-> lastErr]

(***************************************************************************)
(* Credential pool (config/manager.ts): getNextAvailableKey,               *)
(* reportKeySuccess, reportKeyError.  One record per key of the provider   *)
(* that has keys configured; a cooldown is kept as the time still to wait, *)
(* cooldownUntil - now.                                                    *)
(***************************************************************************)
HealthStates == {"healthy", "rate_limited", "auth_rejected", "exhausted"}
ReportKinds == {"rate_limit", "auth_error", "other"}

RateLimitCooldown == 1
AuthCooldown == 2
ExhaustedCooldown == 2
FailureThreshold == 2

NoKey == NumKeys + 1

HealthyCredential == [health |-> "healthy", cooldown |-> 0, failures |-> 0]

\* the cooldown of a rate-limited credential is not looked at
Eligible_IgnoresRateLimit(c) ==
    c.health \in {"healthy", "rate_limited"} \/ c.cooldown = 0

\* A credential may be handed out when it is healthy or its cooldown is over.
Eligible(c) == c.health = "healthy" \/ c.cooldown = 0

EligibleKeys(pl) == {k \in Keys : Eligible(pl[k])}

\* Selection hands the credential out and reverts it to healthy.
Selected(pl, k) == [pl EXCEPT ![k].health = "healthy"]

reportKeySuccess(pl, k) == [pl EXCEPT ![k] = HealthyCredential]

Min(a, b) == IF a < b THEN a ELSE b

reportKeyError(pl, k, kind) ==
    IF kind = "rate_limit" THEN
        [pl EXCEPT ![k].health = "rate_limited", ![k].cooldown = RateLimitCooldown]
    ELSE IF kind = "auth_error" THEN
        [pl EXCEPT ![k].health = "auth_rejected", ![k].cooldown = AuthCooldown]
    ELSE
        LET f == Min(pl[k].failures + 1, FailureThreshold) IN
        IF f >= FailureThreshold THEN
            [pl EXCEPT ![k].failures = f, ![k].health = "exhausted",
                       ![k].cooldown = ExhaustedCooldown]
        ELSE [pl EXCEPT ![k].failures = f]

\* One unit of time passes for every cooldown that is still running.
Elapse(pl) ==
    [k \in Keys |-> [pl[k] EXCEPT !.cooldown = IF @ > 0 THEN @ - 1 ELSE 0]]

(***************************************************************************)
(* Provider registry (providers/registry.ts) and the providers' key        *)
(* predicates.  A key is modelled by what the predicates read: its prefix, *)
(* the alphabet of the whole key and its length.                           *)
(***************************************************************************)
builtinProviders == <<"Doubao", "Gitee", "ModelScope", "HuggingFace", "Pollinations">>

ProviderNames == {builtinProviders[i] : i \in DOMAIN builtinProviders}

KeyPrefixes == {"", "ms-", "hf_", "pk_", "sk_"}

EmptyKey == [prefix |-> "", form |-> "empty", length |-> 0]

\* form "uuid": 8-4-4-4-12 hexadecimal digits; "alnum": letters and digits
\* only; "other": anything else.  A prefix holds "-" or "_", so a key with a
\* prefix is neither a UUID nor alphanumeric.
ApiKeys ==
    {EmptyKey, [prefix |-> "", form |-> "uuid", length |-> 36]}
    \cup [prefix : {""}, form : {"alnum"}, length : {29, 30, 60, 61}]
    \cup [prefix : KeyPrefixes, form : {"other"}, length : {29, 36}]

detectApiKey(name, key) ==
    IF name = "Doubao" THEN key.form = "uuid"
    ELSE IF name = "Gitee"
        THEN key.form = "alnum" /\ key.length >= 30 /\ key.length <= 60
    ELSE IF name = "ModelScope" THEN key.prefix = "ms-"
    ELSE IF name = "HuggingFace" THEN key.prefix = "hf_"
    ELSE IF name = "Pollinations" THEN key.prefix \in {"pk_", "sk_"}
    ELSE FALSE

\* The registrations map, in insertion order.
Registered(regs) == {regs[i].name : i \in DOMAIN regs}

IndexOf(regs, name) == CHOOSE i \in DOMAIN regs : regs[i].name = name

\* Map.set: a name that is present keeps its place, a new one goes last.
register(regs, name, enabled) ==
    IF name \in Registered(regs)
        THEN [regs EXCEPT ![IndexOf(regs, name)].enabled = enabled]
        ELSE Append(regs, [name |-> name, enabled |-> enabled])

registerBuiltinProviders ==
    [i \in DOMAIN builtinProviders |-> [name |-> builtinProviders[i], enabled |-> TRUE]]

\* Map.delete
unregister(regs, name) == SelectSeq(regs, LAMBDA reg : reg.name # name)

SetEnabled(regs, name, enabled) ==
    IF name \in Registered(regs)
        THEN [regs EXCEPT ![IndexOf(regs, name)].enabled = enabled]
        ELSE regs

\* the loop without the test of reg.enabled
detectProvider_IgnoresEnabled(regs, key) ==
    LET accepting == {i \in DOMAIN regs : detectApiKey(regs[i].name, key)}
    IN  IF key = EmptyKey \/ accepting = {} THEN NoProvider
        ELSE regs[CHOOSE i \in accepting : \A j \in accepting : i <= j].name

\* The first registration, in the map's order, that is enabled and whose
\* predicate accepts the key.
detectProvider(regs, key) ==
    LET accepting ==
            {i \in DOMAIN regs : regs[i].enabled /\ detectApiKey(regs[i].name, key)}
    IN  IF key = EmptyKey \/ accepting = {} THEN NoProvider
        ELSE regs[CHOOSE i \in accepting : \A j \in accepting : i <= j].name

\* No call of detectProvider is under way.
NoDetection == [pc |-> "idle"]

(***************************************************************************)
(* State: the pool, and the request being handled                          *)
(***************************************************************************)
VARIABLES
    pooled,         \* the provider whose pool has keys configured
    pool,           \* [Keys -> credential record]
    lastSelected,   \* the key getNextAvailableKey last handed out to the request,
                    \* with its health and cooldown at that moment
    pc,             \* "idle", "normalizing", "generating", "done"
    endpoint,       \* "generations", "edits", "chat"
    usingBackendMode,
    provider,
    attempts,
    apiKey,
    lastError,
    respStatus,     \* HTTP status of the response, 0 while there is none
    respError,      \* error message of the response
    respData,       \* number of entries in the response's data list
    genCalls,       \* calls of provider.generate made for the request
    poolGets,       \* credentials the request obtained from the pool
    poolMissAt,     \* attempt at which getNextAvailableKey returned nothing
    numReports,     \* reports the request sent to the pool
    lastReport,     \* the latest of them
    lastOutcome,    \* what the upstream did in the latest generate call
    images,         \* number of input images of the request
    urlImages,      \* how many of them are remote URLs (the others are base64)
    prompt,         \* the request's prompt is non-empty
    validation,     \* result of validateRequest, "none" before it ran
    probes,         \* HEAD/GET requests the normalizer sent for the request
    requests,       \* the bag of backend-mode requests in flight at the same time
    poller,         \* the poll loop of an async task
    classifier,     \* the latest call of parseErrorMessage: its input and output
    compressor,     \* a call of compressDataUriToTarget
    normalizer,     \* a call of normalizeAndCompressInputImages
    converter,      \* the conversion of a result's images into the response's data
    routing,        \* what the routing of the request read: modes, key, configuration
    registry,       \* the provider registry and a call of detectProvider
    fetcher         \* a call of fetchWithTimeout

poolVars == <<pooled, pool, lastSelected>>

loopVars == <<attempts, apiKey, genCalls, poolGets, poolMissAt>>

respVars == <<respStatus, respError, respData>>

inputVars == <<images, urlImages, prompt>>

vars == <<pooled, pool, lastSelected, pc, endpoint, usingBackendMode, provider,
          attempts, apiKey, lastError, respStatus, respError, respData, genCalls,
          poolGets, poolMissAt, numReports, lastReport, lastOutcome, images,
          urlImages, prompt, validation, probes, requests, poller, classifier,
          compressor, normalizer, converter, routing, registry, fetcher>>

\* The variables of the functions that are checked on their own inputs.
functionVars == <<classifier, compressor, normalizer, converter, registry, fetcher>>

\* The registry and the HTTP helper.
utilityVars == <<registry, fetcher>>

\* The variables of the pool, the concurrent requests and the poll loop.
systemVars == <<pooled, pool, requests, poller>>

\* The variables of the single request of Spec and SpecRelay.
handlerVars == <<lastSelected, pc, endpoint, usingBackendMode, provider,
                 attempts, apiKey, lastError, respStatus, respError, respData,
                 genCalls, poolGets, poolMissAt, numReports, lastReport,
                 lastOutcome, images, urlImages, prompt, validation, probes,
                 routing>>

NoReport == [key |-> NoKey, kind |-> "none"]

NoSelection == [key |-> NoKey, healthy |-> TRUE, cooldown |-> 0]

\* No backend-mode request is in flight.
NoRequests == EmptyBag

\* The poll loop of an async task before a task was submitted.
IdlePoller ==
    [provider |-> NoProvider, pc |-> "idle", pollingAttempts |-> 0,
     invalidResponseStreak |-> 0, invalidRun |-> 0, invalidRounds |-> 0,
     onlyPending |-> TRUE,
     last |-> [t |-> "none"], downloaded |-> FALSE,
     result |-> [success |-> FALSE, error |-> NoError, images |-> <<>>,
                 threw |-> FALSE]]

(***************************************************************************)
(* Input images, utils/security.ts.  Sizes are counted in MiB.  An entry   *)
(* of the image list is the empty string, a URL or base64 text (a data URI *)
(* or bare base64); size is the size of the image behind a URL and         *)
(* calculateBase64Size of base64 text, valid tells whether atob accepts    *)
(* the text.                                                               *)
(***************************************************************************)
MaxBytes == 2

TargetBytes == 1

ImageSizes == {TargetBytes, MaxBytes, MaxBytes + 1}

EncodedSizes == 1..(MaxBytes + 2)

MimeTypes == {"image/png", "image/gif"}

EmptyEntry == [kind |-> "empty", size |-> 0, mime |-> "image/png", valid |-> TRUE]

UrlEntries == [kind : {"url"}, size : ImageSizes, mime : MimeTypes, valid : {TRUE}]

Base64Entries == [kind : {"base64"}, size : ImageSizes, mime : MimeTypes, valid : BOOLEAN]

Entries == {EmptyEntry} \cup UrlEntries \cup Base64Entries

\* What compressDataUriToTarget gives back: its argument, a JPEG of some
\* size, or an exception.
Unchanged == [form |-> "unchanged", size |-> 0]

Jpeg(size) == [form |-> "jpeg", size |-> size]

CompressThrew == [form |-> "threw", size |-> 0]

NoResult == [form |-> "none", size |-> 0]

\* No call is under way.
IdleCompressor == [pc |-> "idle"]

IdleNormalizer == [pc |-> "idle"]

\* No result is being converted.
IdleConverter == [pc |-> "idle"]

\* The request was not routed by key and configuration.
NoRouting == [pc |-> "none"]

\* No call of fetchWithTimeout is under way.
IdleFetcher == [pc |-> "idle"]

\* No call of parseErrorMessage is under way and none was made before.
NoCall == [pc |-> "none"]

IdleClassifier == [pc |-> "idle", before |-> NoCall]

Init ==
    /\ pooled \in {"Gitee", "ModelScope"}
    /\ pool = [k \in Keys |-> HealthyCredential]
    /\ lastSelected = NoSelection
    /\ pc = "idle"
    /\ endpoint = "none"
    /\ usingBackendMode = FALSE
    /\ provider = NoProvider
    /\ attempts = 0
    /\ apiKey = CallerKey
    /\ lastError = NoError
    /\ respStatus = 0
    /\ respError = NoError
    /\ respData = 0
    /\ genCalls = 0
    /\ poolGets = 0
    /\ poolMissAt = 0
    /\ numReports = 0
    /\ lastReport = NoReport
    /\ lastOutcome = NoOutcome
    /\ images = 0
    /\ urlImages = 0
    /\ prompt = FALSE
    /\ validation = "none"
    /\ probes = 0
    /\ requests = NoRequests
    /\ poller = IdlePoller
    /\ classifier = IdleClassifier
    /\ compressor = IdleCompressor
    /\ normalizer = IdleNormalizer
    /\ converter = IdleConverter
    /\ routing = NoRouting
    /\ registry = [registrations |-> registerBuiltinProviders, call |-> NoDetection]
    /\ fetcher = IdleFetcher

(***************************************************************************)
(* Fragments shared by the handlers' actions                               *)
(***************************************************************************)
\* return new Response(...): the handler is over.
Respond(status, msg, data) ==
    /\ pc' = "done"
    /\ respStatus' = status
    /\ respError' = msg
    /\ respData' = data

\* await provider.generate(...): the handler is suspended on the call.
CallGenerate ==
    /\ pc' = "generating"
    /\ genCalls' = genCalls + 1
    /\ UNCHANGED respVars

\* getNextAvailableKey(provider.name) on pool pl: the keys it may return
\* (selection order among the eligible ones is the pool's business); the
\* empty set when it returns nothing.
getNextAvailableKey(pl, p) == IF p = pooled THEN EligibleKeys(pl) ELSE {}

\* One pass of the retry loop from its head to the call of generate,
\* edits.ts:489-513, on pool pl, with lastErr the error of the attempt
\* before (NoError on the first pass).
LoopHead(pl, backend, prov, lastErr) ==
    /\ attempts' = attempts + 1
    /\ IF backend THEN
          IF getNextAvailableKey(pl, prov) = {} THEN
              /\ pool' = pl
              /\ poolMissAt' = attempts + 1
              /\ Respond(PoolMissResponse(attempts + 1, lastErr).status,
                         PoolMissResponse(attempts + 1, lastErr).error, 0)
              /\ UNCHANGED <<apiKey, genCalls, poolGets, lastSelected>>
          ELSE
              \E k \in getNextAvailableKey(pl, prov) :
                  /\ pool' = Selected(pl, k)
                  /\ lastSelected' = [key |-> k, healthy |-> pl[k].health = "healthy",
                                      cooldown |-> pl[k].cooldown]
                  /\ apiKey' = k
                  /\ poolGets' = poolGets + 1
                  /\ CallGenerate
                  /\ UNCHANGED poolMissAt
       ELSE
          /\ pool' = pl
          /\ CallGenerate
          /\ UNCHANGED <<apiKey, poolGets, poolMissAt, lastSelected>>

(***************************************************************************)
(* handleImagesGenerations, handlers/edits.ts:345                          *)
(***************************************************************************)
\* What the routing part decides: a response status, or the mode.
\*   modes: systemConfig.modes; detected: detectProvider(apiKey);
\*   globalOk: no globalAccessKey is set, or apiKey equals it.
\* backend mode without the comparison with globalAccessKey
Route_NoGlobalKeyCheck(modes, detected, globalOk) ==
    IF ~modes.relay /\ ~modes.backend THEN "503"
    ELSE IF detected # NoProvider THEN
        IF ~modes.relay THEN "403" ELSE "relay"
    ELSE IF modes.backend THEN "backend"
    ELSE "401"

Route(modes, detected, globalOk) ==
    IF ~modes.relay /\ ~modes.backend THEN "503"
    ELSE IF detected # NoProvider THEN
        IF ~modes.relay THEN "403" ELSE "relay"
    ELSE IF modes.backend THEN
        IF ~globalOk THEN "401" ELSE "backend"
    ELSE "401"

ModesSet == [relay : BOOLEAN, backend : BOOLEAN]
ModelFields == Providers \cup {"missing", "unsupported"}

\* From the arrival of the request to the first await of provider.generate,
\* or to the response when there is one before.
\*   model: "missing", "unsupported", or the provider getProviderByModel finds
\*   hasPrompt: the prompt is non-empty
ImagesGenerationsStart(modes, detected, globalOk, model, hasPrompt) ==
    LET route == Route(modes, detected, globalOk)
        backend == route = "backend"
        prov == IF backend THEN model ELSE detected
        request == [prompt |-> hasPrompt, images |-> 0]
    IN
    /\ UNCHANGED <<requests, poller>>
    /\ UNCHANGED functionVars
    /\ pc = "idle"
    /\ endpoint' = "generations"
    /\ UNCHANGED <<pooled, images, urlImages, prompt, probes, numReports, lastReport,
                   lastOutcome, lastError>>
    /\ IF route \in {"503", "403", "401"} THEN
          /\ Respond(IF route = "503" THEN 503 ELSE IF route = "403" THEN 403 ELSE 401,
                     RawMessage("rejected_by_routing", {}), 0)
          /\ UNCHANGED <<usingBackendMode, provider, validation, pool, lastSelected>>
          /\ UNCHANGED loopVars
       ELSE IF backend /\ model \in {"missing", "unsupported"} THEN
          /\ usingBackendMode' = TRUE
          /\ Respond(400, RawMessage(IF model = "missing" THEN "missing_model"
                                     ELSE "unsupported_model", {}), 0)
          /\ UNCHANGED <<provider, validation, pool, lastSelected>>
          /\ UNCHANGED loopVars
       ELSE
          /\ usingBackendMode' = backend
          /\ provider' = prov
          /\ validation' = validateRequest(prov, request)
          /\ IF Rejects(validateRequest(prov, request)) THEN
                /\ Respond(400, RawMessage(validateRequest(prov, request), {}), 0)
                /\ UNCHANGED <<pool, lastSelected>>
                /\ UNCHANGED loopVars
             ELSE LoopHead(pool, backend, prov, NoError)

\* the failure branch without its reportKeyError call
Reported_FailureNotReported(pl, backend, res, key) ==
    IF backend /\ res.success THEN reportKeySuccess(pl, key) ELSE pl

\* The pool after the handler's report for an attempt that returned res with
\* credential key: reportKeySuccess or reportKeyError in backend mode, no
\* call in relay mode.
Reported(pl, backend, res, key) ==
    IF ~backend THEN pl
    ELSE IF res.success THEN reportKeySuccess(pl, key)
    ELSE reportKeyError(pl, key, ReportKind(res.error))

\* provider.generate settles with what the upstream did (o); the handler
\* runs on to the next await of generate or to its response.
ImagesGenerationsResume(o) ==
    LET backend == usingBackendMode
        res == generate(provider, o)
        kind == ReportKind(res.error)
    IN
    /\ UNCHANGED <<requests, poller>>
    /\ UNCHANGED functionVars
    /\ pc = "generating"
    /\ endpoint = "generations"
    /\ o \in Outcomes(provider)
    /\ lastOutcome' = o
    /\ UNCHANGED <<pooled, endpoint, usingBackendMode, provider, validation, probes>>
    /\ UNCHANGED inputVars
    /\ IF res.threw THEN
          \* the exception leaves the loop for the handler's catch
          /\ Respond(500, res.error, 0)
          /\ UNCHANGED <<pool, lastSelected, numReports, lastReport, lastError>>
          /\ UNCHANGED loopVars
       ELSE
          /\ lastError' = IF res.success THEN lastError ELSE res.error
          /\ IF backend
                THEN /\ numReports' = numReports + 1
                     /\ lastReport' = [key |-> apiKey,
                                       kind |-> IF res.success THEN "success" ELSE kind]
                ELSE UNCHANGED <<numReports, lastReport>>
          /\ IF ShouldRetry(res, backend, attempts)
                THEN LoopHead(Reported(pool, backend, res, apiKey), backend, provider,
                              res.error)
                ELSE /\ pool' = Reported(pool, backend, res, apiKey)
                     /\ IF res.success
                           THEN Respond(200, NoError, res.images)
                           ELSE Respond(500, res.error, 0)
                     /\ UNCHANGED lastSelected
                     /\ UNCHANGED loopVars

(***************************************************************************)
(* handleImagesEdits (handlers/edits.ts:49) and handleChatCompletions      *)
(* (handlers/chat.ts:115): relay only, one call of generate.               *)
(***************************************************************************)
\* From the arrival of the request to the await of the normalizer.
\*   detected: detectProvider(apiKey), NoProvider also for a missing key
\*   n: number of input images, u of them remote URLs
RelayStart(ep, detected, hasPrompt, n, u) ==
    /\ UNCHANGED <<requests, poller>>
    /\ UNCHANGED functionVars
    /\ pc = "idle"
    /\ u <= n
    /\ endpoint' = ep
    /\ UNCHANGED <<usingBackendMode, lastError, numReports, lastReport, lastOutcome,
                   validation, probes>>
    /\ UNCHANGED poolVars
    /\ UNCHANGED loopVars
    /\ IF detected = NoProvider THEN
          /\ Respond(401, RawMessage("invalid_key_format", {}), 0)
          /\ UNCHANGED provider
          /\ UNCHANGED inputVars
       ELSE IF ep = "edits" /\ n = 0 THEN
          /\ provider' = detected
          /\ Respond(400, RawMessage("missing_image", {}), 0)
          /\ UNCHANGED inputVars
       ELSE
          /\ provider' = detected
          /\ images' = n
          /\ urlImages' = u
          /\ prompt' = hasPrompt
          /\ pc' = "normalizing"
          /\ UNCHANGED respVars

\* normalizeAndCompressInputImages settles: it sent a HEAD for every URL
\* image and a GET for gets of them (those whose HEAD gave no usable
\* content-length, or one above maxBytes).  The handler then validates and
\* calls generate.
RelayNormalized(gets) ==
    LET request == [prompt |-> prompt, images |-> images]
        verdict == validateRequest(provider, request)
    IN
    /\ UNCHANGED <<requests, poller>>
    /\ UNCHANGED functionVars
    /\ pc = "normalizing"
    /\ gets <= urlImages
    /\ probes' = urlImages + gets
    /\ validation' = verdict
    /\ UNCHANGED <<endpoint, usingBackendMode, provider, attempts, apiKey, lastError,
                   poolGets, poolMissAt, numReports, lastReport, lastOutcome>>
    /\ UNCHANGED poolVars
    /\ UNCHANGED inputVars
    /\ IF Rejects(verdict)
          THEN /\ Respond(400, RawMessage(verdict, {}), 0)
               /\ UNCHANGED genCalls
          ELSE CallGenerate

\* provider.generate settles; a failed result is thrown to the handler's
\* catch, an exception of generate reaches it directly.
RelayResume(o) ==
    LET res == generate(provider, o) IN
    /\ UNCHANGED <<requests, poller>>
    /\ UNCHANGED functionVars
    /\ pc = "generating"
    /\ endpoint \in {"edits", "chat"}
    /\ o \in Outcomes(provider)
    /\ lastOutcome' = o
    /\ IF res.success
          THEN Respond(200, NoError, res.images)
          ELSE Respond(500, res.error, 0)
    /\ UNCHANGED <<endpoint, usingBackendMode, provider, lastError, numReports,
                   lastReport, validation, probes>>
    /\ UNCHANGED poolVars
    /\ UNCHANGED loopVars
    /\ UNCHANGED inputVars

(***************************************************************************)
(* Environment                                                             *)
(***************************************************************************)
\* The response has been sent; the next request arrives on a fresh handler.
Reset ==
    /\ UNCHANGED <<requests, poller>>
    /\ UNCHANGED functionVars
    /\ pc = "done"
    /\ pc' = "idle"
    /\ endpoint' = "none"
    /\ usingBackendMode' = FALSE
    /\ provider' = NoProvider
    /\ attempts' = 0
    /\ apiKey' = CallerKey
    /\ lastError' = NoError
    /\ respStatus' = 0
    /\ respError' = NoError
    /\ respData' = 0
    /\ genCalls' = 0
    /\ poolGets' = 0
    /\ poolMissAt' = 0
    /\ numReports' = 0
    /\ lastReport' = NoReport
    /\ lastOutcome' = NoOutcome
    /\ images' = 0
    /\ urlImages' = 0
    /\ prompt' = FALSE
    /\ validation' = "none"
    /\ probes' = 0
    /\ lastSelected' = NoSelection
    /\ UNCHANGED <<pooled, pool>>

\* Time passes while some cooldown is running.
Tick ==
    /\ UNCHANGED <<requests, poller>>
    /\ UNCHANGED functionVars
    /\ \E k \in Keys : pool[k].cooldown > 0
    /\ pool' = Elapse(pool)
    /\ UNCHANGED <<pooled, lastSelected, pc, endpoint, usingBackendMode, provider,
                   lastError, numReports, lastReport, lastOutcome, validation, probes>>
    /\ UNCHANGED loopVars
    /\ UNCHANGED respVars
    /\ UNCHANGED inputVars

\* The body fields that are read on each route: none when routing rejects
\* the request, the model only in backend mode.
BodyModels(route) == IF route = "backend" THEN ModelFields ELSE {"missing"}
BodyPrompts(route) == IF route \in {"relay", "backend"} THEN BOOLEAN ELSE {FALSE}

GenerationsNext ==
    \/ /\ pc = "idle"
       /\ UNCHANGED routing
       /\ \E modes \in ModesSet, detected \in Providers \cup {NoProvider},
             globalOk \in BOOLEAN :
               \E model \in BodyModels(Route(modes, detected, globalOk)),
                  hasPrompt \in BodyPrompts(Route(modes, detected, globalOk)) :
                   ImagesGenerationsStart(modes, detected, globalOk, model, hasPrompt)
    \/ /\ pc = "generating"
       /\ UNCHANGED routing
       /\ \E o \in Outcomes(provider) : ImagesGenerationsResume(o)
    \/ Reset /\ UNCHANGED routing
    \/ Tick /\ UNCHANGED routing

RelayNext ==
    \/ /\ pc = "idle"
       /\ UNCHANGED routing
       /\ \E ep \in {"edits", "chat"}, detected \in Providers \cup {NoProvider},
             hasPrompt \in BOOLEAN, n \in 0..MaxInputImages, u \in 0..MaxInputImages :
               RelayStart(ep, detected, hasPrompt, n, u)
    \/ /\ pc = "normalizing"
       /\ UNCHANGED routing
       /\ \E gets \in 0..MaxInputImages : RelayNormalized(gets)
    \/ /\ pc = "generating"
       /\ UNCHANGED routing
       /\ \E o \in Outcomes(provider) : RelayResume(o)
    \/ Reset /\ UNCHANGED routing

\* The images-generation endpoint with the credential pool.
Spec == Init /\ [][GenerationsNext]_vars

\* The edit and chat endpoints.
SpecRelay == Init /\ [][RelayNext]_vars

(***************************************************************************)
(* Several backend-mode requests in flight: the retry loop of              *)
(* handleImagesGenerations (edits.ts:483-546) run by each of them on the   *)
(* shared pool.  getNextAvailableKey, reportKeySuccess and reportKeyError  *)
(* are synchronous calls, so each runs to its end before another           *)
(* request's code does; the requests interleave at await provider.generate.*)
(***************************************************************************)
\* the pool hands out a key without looking at its health or cooldown
Candidates_Unchecked(pl) == Keys

\* The keys getNextAvailableKey may return to a request of the pooled
\* provider.
Candidates(pl) == getNextAvailableKey(pl, pooled)

\* A request in flight is suspended on provider.generate: the passes of the
\* retry loop it has begun, the key it holds, and whether that key was
\* handed out while it was not healthy and its cooldown was still running.
InFlight(att, k, pl) ==
    [attempts |-> att,
     selected |-> [key |-> k,
                   cooling |-> pl[k].health # "healthy" /\ pl[k].cooldown > 0]]

\* The loop head of a request that has made att passes, on pool pl, the
\* other requests in flight being rest: a hand-out and the call of
\* generate, or the end of the request when the pool returns nothing.
ConcurrentLoopHead(rest, att, pl) ==
    IF Candidates(pl) = {} THEN
        /\ pool' = pl
        /\ requests' = rest
    ELSE
        \E k \in Candidates(pl) :
            /\ pool' = Selected(pl, k)
            /\ requests' = rest (+) SetToBag({InFlight(att + 1, k, pl)})

\* A request arrives and enters its retry loop.
ConcurrentStart ==
    /\ BagCardinality(requests) < NumRequests
    /\ ConcurrentLoopHead(requests, 0, pool)
    /\ UNCHANGED <<pooled, poller>>
    /\ UNCHANGED functionVars
    /\ UNCHANGED handlerVars

\* provider.generate of the request in flight req settles with what the
\* upstream did.
ConcurrentResume(req, o) ==
    LET res == generate(pooled, o)
        key == req.selected.key
        rest == requests (-) SetToBag({req})
    IN
    /\ BagIn(req, requests)
    /\ UNCHANGED <<pooled, poller>>
    /\ UNCHANGED functionVars
    /\ UNCHANGED handlerVars
    /\ IF res.threw THEN
          /\ requests' = rest
          /\ UNCHANGED pool
       ELSE IF ShouldRetry(res, TRUE, req.attempts) THEN
          ConcurrentLoopHead(rest, req.attempts, Reported(pool, TRUE, res, key))
       ELSE
          /\ pool' = Reported(pool, TRUE, res, key)
          /\ requests' = rest

\* One upstream answer for each way the retry loop can take: a success, a
\* failure of each report kind, and a rejected fetch.
ConcurrentOutcomes ==
    {[t |-> "ok", n |-> 1],
     [t |-> "http", status |-> 429, text |-> {}],
     [t |-> "http", status |-> 500, text |-> {"noAvailableKey"}],
     [t |-> "http", status |-> 500, text |-> {}],
     [t |-> "neterr"]}

ConcurrentNext ==
    \/ ConcurrentStart
    \/ \E req \in BagToSet(requests) : \E o \in ConcurrentOutcomes :
          ConcurrentResume(req, o)
    \/ Tick /\ UNCHANGED routing

\* Concurrent backend-mode requests on one credential pool.
SpecConcurrent == Init /\ [][ConcurrentNext]_vars

(***************************************************************************)
(* The poll loops of the async tasks: GiteeProvider.handleAsyncEdit        *)
(* (providers/gitee.ts:377-443, inside generate's try/catch) and           *)
(* ModelScopeProvider.generate (providers/modelscope.ts:181-359, no        *)
(* try/catch).  The task has been submitted and has a task id; one action  *)
(* is one pass of the loop, from the sleep to the next sleep or to the     *)
(* loop's exit.                                                            *)
(***************************************************************************)
GiteeMaxAttempts == 60
ModelScopeMaxAttempts == 120

\* the abort one round later
InvalidStreakLimit_Seven == 6 + 1

\* if (invalidResponseStreak >= 6), ModelScope only
InvalidStreakLimit == 6

PollMaxAttempts(p) == IF p = "Gitee" THEN GiteeMaxAttempts ELSE ModelScopeMaxAttempts

\* the loop condition never ends the loop
LoopExhausted_Never(p, n) == FALSE

\* The for loop's condition fails after n passes.
LoopExhausted(p, n) == n >= PollMaxAttempts(p)

\* What the body of a Gitee status response holds in its fields output and
\* data: nothing, an object with url, file_url or b64_json, an array
\* without a usable item or with one url item, an object holding data.url,
\* or an object with none of these.
Shapes ==
    {"absent", "url", "file_url", "b64_json", "array0", "array1", "nested_url",
     "unrecognized"}
OutputShapes == {"absent", "url", "b64_json", "array0", "nested_url", "unrecognized"}
DataShapes == {"absent", "url"}

\* t = "neterr":      fetchWithTimeout rejects (network error, abort on timeout)
\* t = "http":        a non-2xx answer
\* t = "unparseable": a 2xx answer whose body is not JSON
\* t = "json":        a 2xx answer with a JSON body
FailedPollResponses ==
    [t : {"neterr"}] \cup [t : {"http"}, status : Statuses] \cup [t : {"unparseable"}]

GiteePollResponses ==
    FailedPollResponses
    \cup [t : {"json"}, status : {"pending", "failure", "cancelled"},
          output : {"absent"}, data : {"absent"}]
    \cup [t : {"json"}, status : {"success"}, output : OutputShapes, data : DataShapes]

\* task_status "absent": the body has no task_status, neither at the top
\* nor under data; n: the strings extractOutputImages finds; tokens: what
\* the body gives as the reason of a failed task.
ModelScopePollResponses ==
    FailedPollResponses
    \cup [t : {"json"}, status : {"PENDING", "CANCELED", "absent"}, n : {0}, tokens : {{}}]
    \cup [t : {"json"}, status : {"SUCCEED"}, n : 0..MaxImages, tokens : {{}}]
    \cup [t : {"json"}, status : {"FAILED"}, n : {0}, tokens : RawTokenSets]

PollSucceeded(imgs) ==
    [success |-> TRUE, error |-> NoError, images |-> imgs, threw |-> FALSE]
PollFailed(msg) == [success |-> FALSE, error |-> msg, images |-> <<>>, threw |-> FALSE]
PollThrew(msg) == [success |-> FALSE, error |-> msg, images |-> <<>>, threw |-> TRUE]

\* the data field of the response is not looked at
StatusOutput_OutputOnly(output, data) == output

\* const output = statusData.output ?? statusData.data
StatusOutput(output, data) == IF output # "absent" THEN output ELSE data

\* gitee.ts:398-419: the image entries taken from output.
ExtractImageData(output) ==
    IF output \in {"file_url", "url", "array1", "nested_url"} THEN <<"url">>
    ELSE IF output = "b64_json" THEN <<"b64_json">>
    ELSE <<>>

\* convertUrlsToBase64 (and modelscope.ts:316-330): a url entry becomes the
\* base64 of the downloaded image, and stays a url when the download fails.
ConvertUrlsToBase64(imgs, downloads) ==
    [i \in 1..Len(imgs) |-> IF imgs[i] = "url" /\ downloads THEN "b64_json" ELSE imgs[i]]

\* A pass that ended with continue, or fell through: the loop goes on, or
\* is left for the timeout after it.
Continue(pl, p, timeoutMsg) ==
    IF LoopExhausted(p, pl.pollingAttempts)
        THEN [pl EXCEPT !.pc = "done", !.result = PollFailed(timeoutMsg)]
        ELSE pl

Done(pl, res) == [pl EXCEPT !.pc = "done", !.result = res]

\* The response is no answer about the task's status.
NoStatus(resp) ==
    \/ resp.t \in {"neterr", "http", "unparseable"}
    \/ resp.t = "json" /\ resp.status = "absent"

\* What a pass records before it looks at the response.
Polled(pl, resp, downloads) ==
    [pl EXCEPT !.pollingAttempts = @ + 1,
               !.last = resp,
               !.downloaded = downloads,
               !.onlyPending = pl.onlyPending /\
                   (pl.last.t = "none" \/
                    (pl.last.t = "json" /\ pl.last.status \in {"pending", "PENDING"})),
               !.invalidRun = IF NoStatus(resp) THEN @ + 1 ELSE 0,
               !.invalidRounds = IF NoStatus(resp) /\ pl.provider = "ModelScope"
                                    THEN Min(@ + 1, InvalidStreakLimit + 1) ELSE @]

\* One pass of the loop of handleAsyncEdit, gitee.ts:379-439, and the throw
\* after the loop; what is thrown becomes generate's failed result
\* (gitee.ts:131-141).
GiteePollStep(pl0, resp, downloads) ==
    LET pl == Polled(pl0, resp, downloads)
        timeoutMsg == RawMessage("gitee_async_timeout", {})
    IN
    IF resp.t = "neterr" THEN Done(pl, PollFailed(RawMessage("fetch_error", {})))
    ELSE IF resp.t = "http" THEN Continue(pl, "Gitee", timeoutMsg)
    ELSE IF resp.t = "unparseable"
        THEN Done(pl, PollFailed(RawMessage("json_parse_error", {})))
    ELSE IF resp.status = "success" THEN
        LET imageData == ExtractImageData(StatusOutput(resp.output, resp.data)) IN
        IF Len(imageData) = 0
            THEN Done(pl, PollFailed(RawMessage("gitee_async_no_image", {})))
            ELSE Done(pl, PollSucceeded(ConvertUrlsToBase64(imageData, downloads)))
    ELSE IF resp.status = "failure"
        THEN Done(pl, PollFailed(RawMessage("gitee_async_failed", {})))
    ELSE IF resp.status = "cancelled"
        THEN Done(pl, PollFailed(RawMessage("gitee_async_cancelled", {})))
    ELSE Continue(pl, "Gitee", timeoutMsg)

\* getTaskStatus leaves generate with an exception on this response.
StatusRequestThrows(resp) == resp.t \in {"neterr", "unparseable"}

\* One pass of the loop of ModelScopeProvider.generate, modelscope.ts:
\* 265-351, and the return after the loop.  r1 answers the status request
\* for the task type image_generation, r2 the one for video_generation,
\* which is sent when the first gave no status.
ModelScopePollStep(pl0, r1, r2, downloads) ==
    LET resp == IF NoStatus(r1) /\ ~StatusRequestThrows(r1) THEN r2 ELSE r1
        pl == Polled(pl0, resp, downloads)
        timeoutMsg == RawMessage("modelscope_task_timeout", {})
    IN
    IF StatusRequestThrows(resp) THEN
        Done(pl, PollThrew(RawMessage(IF resp.t = "neterr" THEN "fetch_error"
                                      ELSE "json_parse_error", {})))
    ELSE IF NoStatus(resp) THEN
        LET st == [pl EXCEPT !.invalidResponseStreak = @ + 1] IN
        IF st.invalidResponseStreak >= InvalidStreakLimit
            THEN Done(st, PollFailed(RawMessage("modelscope_poll_abnormal",
                          IF resp.t = "http" THEN StatusToken(resp.status) ELSE {})))
            ELSE Continue(st, "ModelScope", timeoutMsg)
    ELSE
        LET ok == [pl EXCEPT !.invalidResponseStreak = 0] IN
        IF resp.status = "SUCCEED"
            THEN Done(ok, PollSucceeded(
                     ConvertUrlsToBase64([i \in 1..resp.n |-> "url"], downloads)))
        ELSE IF resp.status = "FAILED"
            THEN Done(ok, PollFailed(RawMessage("modelscope_task_failed", resp.tokens)))
        ELSE Continue(ok, "ModelScope", timeoutMsg)

\* The submit request of a call of generate returned a task id: the poll
\* loop is entered with fresh locals.
PollerStart(p) ==
    /\ poller.pc \in {"idle", "done"}
    /\ poller' = [IdlePoller EXCEPT !.provider = p, !.pc = "polling"]
    /\ UNCHANGED <<pooled, pool, requests>>
    /\ UNCHANGED functionVars
    /\ UNCHANGED handlerVars

GiteePoll(resp, downloads) ==
    /\ poller.pc = "polling"
    /\ poller.provider = "Gitee"
    /\ poller' = GiteePollStep(poller, resp, downloads)
    /\ UNCHANGED <<pooled, pool, requests>>
    /\ UNCHANGED functionVars
    /\ UNCHANGED handlerVars

ModelScopePoll(r1, r2, downloads) ==
    /\ poller.pc = "polling"
    /\ poller.provider = "ModelScope"
    /\ poller' = ModelScopePollStep(poller, r1, r2, downloads)
    /\ UNCHANGED <<pooled, pool, requests>>
    /\ UNCHANGED functionVars
    /\ UNCHANGED handlerVars

\* The image downloads of convertUrlsToBase64 happen on a success only.
Downloads(resp) ==
    IF resp.t = "json" /\ resp.status \in {"success", "SUCCEED"} THEN BOOLEAN ELSE {FALSE}

\* The second status request of a pass is sent when the first gave no status.
SecondResponses(r1) ==
    IF NoStatus(r1) /\ ~StatusRequestThrows(r1) THEN ModelScopePollResponses ELSE {r1}

PollerNext ==
    \/ \E p \in {"Gitee", "ModelScope"} : PollerStart(p)
    \/ /\ poller.pc = "polling"
       /\ \E resp \in GiteePollResponses : \E d \in Downloads(resp) :
             GiteePoll(resp, d)
    \/ /\ poller.pc = "polling"
       /\ \E r1 \in ModelScopePollResponses : \E r2 \in SecondResponses(r1) :
             \E d \in Downloads(r2) : ModelScopePoll(r1, r2, d)

\* The poll loops of the async providers.
SpecPoller == Init /\ [][PollerNext]_vars

(***************************************************************************)
(* The error classifier on its own inputs: parseErrorMessage is called     *)
(* with any body, any status code and with or without a provider name,     *)
(* one call after the other.                                               *)
(***************************************************************************)
\* The status codes of a call; 0 is the absent statusCode argument.
ClassifierStatuses == {0, 400, 401, 408, 429, 500, 502, 503, 504}

ClassifierProviders == Providers \cup {NoProvider}

\* A short body is kept whole; a long body has at most one keyword class
\* in the part that the cap removes.
Bodies ==
    {b \in [long : BOOLEAN, head : SUBSET KeywordClasses,
            tail : {{}} \cup {{c} : c \in KeywordClasses}] :
        /\ Cardinality(b.head \cup b.tail) <= MaxKeywords
        /\ b.head \cap b.tail = {}
        /\ (~b.long => b.tail = {})}

\* One call of parseErrorMessage.
Classify(body, statusCode, prov) ==
    LET text == CapText(body)
    IN  /\ classifier' =
              [pc |-> "classified", body |-> body, statusCode |-> statusCode,
               provider |-> prov, text |-> text,
               errorType |-> identifyErrorType(text, statusCode),
               output |-> parseErrorMessage(body, statusCode, prov),
               before |-> classifier.before]
        /\ UNCHANGED <<compressor, normalizer, converter>>
        /\ UNCHANGED systemVars
        /\ UNCHANGED utilityVars
        /\ UNCHANGED handlerVars

\* The caller has used the output; what the call returned is remembered for
\* the comparison with the next call.
ClassifyReturn ==
    /\ classifier.pc = "classified"
    /\ classifier' =
          [IdleClassifier EXCEPT
              !.before = [pc |-> "returned", errorType |-> classifier.errorType,
                          provider |-> classifier.provider,
                          output |-> classifier.output]]
    /\ UNCHANGED <<compressor, normalizer, converter>>
    /\ UNCHANGED systemVars
    /\ UNCHANGED utilityVars
    /\ UNCHANGED handlerVars

\* A caller calls parseErrorMessage when no call is under way.
ClassifyCall ==
    /\ classifier.pc = "idle"
    /\ \E body \in Bodies, statusCode \in ClassifierStatuses,
          prov \in ClassifierProviders :
          Classify(body, statusCode, prov)

ClassifierNext ==
    \/ ClassifyCall
    \/ ClassifyReturn

SpecClassifier == Init /\ [][ClassifierNext]_vars

(***************************************************************************)
(* compressDataUriToTarget, one call in steps: the checks before the loop  *)
(* and the decoding, then one step for each call of encodeJPEG.            *)
(***************************************************************************)
qualities == <<85, 75, 65, 55, 45, 35, 25>>

MaxPasses == 6

\* The widths of the decoded images.
Widths == {1, 2, 20}

\* Math.max(1, Math.floor(working.width * 0.85))
NewWidth(width) == IF (width * 85) \div 100 < 1 THEN 1 ELSE (width * 85) \div 100

\* if (!best || encoded.byteLength < best.byteLength) best = encoded
Better_KeepsFirst(best, encoded) == IF best = 0 THEN encoded ELSE best

Better(best, encoded) == IF best = 0 \/ encoded < best THEN encoded ELSE best

\* if (best) return the JPEG of best; return dataUri
AfterLoop(best) == IF best # 0 THEN Jpeg(best) ELSE Unchanged

CompressorFrame ==
    /\ UNCHANGED <<classifier, normalizer, converter>>
    /\ UNCHANGED systemVars
    /\ UNCHANGED utilityVars
    /\ UNCHANGED handlerVars

\* From the call to the first encodeJPEG.
CompressStart(dataUri, decodes, width) ==
    /\ compressor.pc = "idle"
    /\ LET c == [pc |-> "idle", dataUri |-> dataUri, pass |-> 0, quality |-> 1,
                 best |-> 0, width |-> 0, firstWidth |-> 0, encodes |-> 0,
                 seen |-> {}, encodeFailed |-> FALSE, result |-> NoResult]
       IN  IF dataUri.mime = "image/gif"
               THEN compressor' = [c EXCEPT !.pc = "done", !.result = Unchanged]
           ELSE IF ~dataUri.valid
               THEN compressor' = [c EXCEPT !.pc = "done", !.result = CompressThrew]
           ELSE IF dataUri.size <= TargetBytes
               THEN compressor' = [c EXCEPT !.pc = "done", !.result = Unchanged]
           ELSE IF ~decodes
               THEN compressor' = [c EXCEPT !.pc = "done", !.result = Unchanged]
           ELSE compressor' = [c EXCEPT !.pc = "encoding", !.width = width,
                                        !.firstWidth = width]
    /\ CompressorFrame

\* encodeJPEG throws.
EncodeThrows ==
    /\ compressor.pc = "encoding"
    /\ compressor' = [compressor EXCEPT !.pc = "done", !.result = Unchanged,
                                        !.encodes = @ + 1, !.encodeFailed = TRUE]
    /\ CompressorFrame

\* encodeJPEG returns a candidate of the given size; after the last quality
\* of a pass the image is resized, which may throw.
EncodeStep(encoded, resizeThrows) ==
    /\ compressor.pc = "encoding"
    /\ LET best == Better(compressor.best, encoded)
           c == [compressor EXCEPT !.best = best, !.encodes = @ + 1,
                                   !.seen = @ \cup {encoded}]
           newWidth == NewWidth(compressor.width)
       IN  IF encoded <= TargetBytes
               THEN compressor' = [c EXCEPT !.pc = "done", !.result = Jpeg(encoded)]
           ELSE IF compressor.quality < Len(qualities)
               THEN compressor' = [c EXCEPT !.quality = @ + 1]
           ELSE IF newWidth >= compressor.width \/ resizeThrows
               THEN compressor' = [c EXCEPT !.pc = "done", !.result = AfterLoop(best)]
           ELSE IF compressor.pass + 1 < MaxPasses
               THEN compressor' = [c EXCEPT !.pass = @ + 1, !.quality = 1,
                                            !.width = newWidth]
           ELSE compressor' = [c EXCEPT !.pc = "done", !.pass = @ + 1,
                                        !.width = newWidth,
                                        !.result = AfterLoop(best)]
    /\ CompressorFrame

\* compressDataUriToTarget is called with a data URI.
CompressCall ==
    /\ compressor.pc = "idle"
    /\ \E dataUri \in UrlEntries \cup Base64Entries, decodes \in BOOLEAN,
          width \in Widths :
          CompressStart(dataUri, decodes, width)

CompressorNext ==
    \/ CompressCall
    \/ EncodeThrows
    \/ \E encoded \in EncodedSizes, resizeThrows \in BOOLEAN :
          EncodeStep(encoded, resizeThrows)

SpecCompressor == Init /\ [][CompressorNext]_vars

(***************************************************************************)
(* normalizeAndCompressInputImages, one call: one step for each entry of   *)
(* the list.                                                               *)
(***************************************************************************)
\* The results compressDataUriToTarget can give for a data URI.
CompressOutcomes(dataUri) ==
    IF dataUri.mime = "image/gif" THEN {Unchanged}
    ELSE IF ~dataUri.valid THEN {CompressThrew}
    ELSE IF dataUri.size <= TargetBytes THEN {Unchanged}
    ELSE {Unchanged} \cup {Jpeg(n) : n \in EncodedSizes}

ImageLists == UNION {[1..n -> Entries] : n \in 0..MaxListLength}

\* An entry of the result: the input entry it was made from and what it is,
\* the input entry itself ("input"), the data URI of the downloaded image
\* ("downloaded") or the JPEG of the compressor.
Same(i, img) == [src |-> i, form |-> "input", size |-> img.size]

Compressed(i, img, out) ==
    IF out.form = "jpeg" THEN [src |-> i, form |-> "jpeg", size |-> out.size]
    ELSE IF img.kind = "url" THEN [src |-> i, form |-> "downloaded", size |-> img.size]
    ELSE Same(i, img)

\* if (!img) continue
Skipped_Never(img) == FALSE

Skipped(img) == img.kind = "empty"

\* The size checks that let an entry through as it is.
WithinLimit_Never(size) == FALSE

WithinLimit(size) == size <= MaxBytes

NormalizerFrame ==
    /\ UNCHANGED <<classifier, compressor, converter>>
    /\ UNCHANGED systemVars
    /\ UNCHANGED utilityVars
    /\ UNCHANGED handlerVars

NormalizeStart(list) ==
    /\ normalizer.pc = "idle"
    /\ normalizer' = [pc |-> "running", images |-> list, next |-> 1, results |-> <<>>]
    /\ NormalizerFrame

Push(entry) ==
    normalizer' = [normalizer EXCEPT !.results = Append(@, entry), !.next = @ + 1]

\* One pass of the for loop.  contentLength is what the HEAD request gave
\* (0: nothing), downloads whether the GET succeeds, out what the
\* compressor does if it is called.
NormalizeEntry(contentLength, downloads, out) ==
    /\ normalizer.pc = "running"
    /\ normalizer.next <= Len(normalizer.images)
    /\ LET i == normalizer.next
           img == normalizer.images[i]
       IN  IF Skipped(img)
               THEN normalizer' = [normalizer EXCEPT !.next = @ + 1]
           ELSE IF img.kind = "url"
               THEN IF contentLength # 0 /\ contentLength <= MaxBytes
                        THEN Push(Same(i, img))
                    ELSE IF ~downloads THEN Push(Same(i, img))
                    ELSE IF WithinLimit(img.size) THEN Push(Same(i, img))
                    ELSE IF out.form = "threw" THEN Push(Same(i, img))
                    ELSE Push(Compressed(i, img, out))
           ELSE IF WithinLimit(img.size) THEN Push(Same(i, img))
           ELSE IF out.form = "threw"
               THEN normalizer' = [normalizer EXCEPT !.pc = "threw"]
           ELSE Push(Compressed(i, img, out))
    /\ NormalizerFrame

NormalizeNextEntry ==
    /\ normalizer.pc = "running"
    /\ normalizer.next <= Len(normalizer.images)
    /\ \E contentLength \in {0} \cup ImageSizes, downloads \in BOOLEAN :
          \E out \in CompressOutcomes(normalizer.images[normalizer.next]) :
              NormalizeEntry(contentLength, downloads, out)

NormalizeReturn ==
    /\ normalizer.pc = "running"
    /\ normalizer.next > Len(normalizer.images)
    /\ normalizer' = [normalizer EXCEPT !.pc = "returned"]
    /\ NormalizerFrame

\* normalizeAndCompressInputImages is called with a list.
NormalizeCall ==
    /\ normalizer.pc = "idle"
    /\ \E list \in ImageLists : NormalizeStart(list)

NormalizerNext ==
    \/ NormalizeCall
    \/ NormalizeNextEntry
    \/ NormalizeReturn

SpecNormalizer == Init /\ [][NormalizerNext]_vars

(***************************************************************************)
(* The response of the three image handlers: the images of a successful    *)
(* result are put into the data list in the representation the caller      *)
(* asked for.  An image of a result has a url, a b64_json or both (or      *)
(* neither); an entry of data says which of the two fields it has.         *)
(***************************************************************************)
ConvertingHandlers ==
    {"edits.ts/handleImagesEdits", "edits.ts/handleImagesGenerations",
     "images.ts/handleImagesGenerations"}

ResponseFormats == {"url", "b64_json"}

ResultImages == [url : BOOLEAN, b64_json : BOOLEAN]

ResultImageLists == UNION {[1..n -> ResultImages] : n \in 0..MaxImages}

NoEntry == [src |-> 0, url |-> FALSE, b64_json |-> FALSE, fallback |-> FALSE]

UrlEntry(i) == [src |-> i, url |-> TRUE, b64_json |-> FALSE, fallback |-> FALSE]

Base64Entry(i) == [src |-> i, url |-> FALSE, b64_json |-> TRUE, fallback |-> FALSE]

\* The data entry made from image i of the result; NoEntry if none is made.
\* downloads tells whether urlToBase64 succeeds.
DataEntry_AsGiven(i, img, format, downloads) ==
    IF img.url \/ img.b64_json
    THEN [src |-> i, url |-> img.url, b64_json |-> img.b64_json, fallback |-> FALSE]
    ELSE NoEntry

DataEntry(i, img, format, downloads) ==
    IF format = "b64_json"
    THEN IF img.b64_json THEN Base64Entry(i)
         ELSE IF img.url
             THEN IF downloads THEN Base64Entry(i)
                  ELSE [UrlEntry(i) EXCEPT !.fallback = TRUE]
         ELSE NoEntry
    ELSE IF img.url THEN UrlEntry(i)
    ELSE IF img.b64_json THEN UrlEntry(i)
    ELSE NoEntry

ConverterFrame ==
    /\ UNCHANGED <<classifier, compressor, normalizer>>
    /\ UNCHANGED systemVars
    /\ UNCHANGED utilityVars
    /\ UNCHANGED handlerVars

\* A handler has a successful result and starts to build the data list.
ConvertStart(handler, format, list) ==
    /\ converter.pc = "idle"
    /\ converter' = [pc |-> "converting", handler |-> handler, format |-> format,
                     images |-> list, next |-> 1, data |-> <<>>]
    /\ ConverterFrame

\* One pass of the for loop over the images of the result.
ConvertImage(downloads) ==
    /\ converter.pc = "converting"
    /\ converter.next <= Len(converter.images)
    /\ LET entry == DataEntry(converter.next, converter.images[converter.next],
                              converter.format, downloads)
       IN  converter' =
               [converter EXCEPT !.next = @ + 1,
                                 !.data = IF entry = NoEntry THEN @
                                          ELSE Append(@, entry)]
    /\ ConverterFrame

\* The response body is built from the data list.
ConvertDone ==
    /\ converter.pc = "converting"
    /\ converter.next > Len(converter.images)
    /\ converter' = [converter EXCEPT !.pc = "responded"]
    /\ ConverterFrame

\* A handler got a successful result.
ConvertCall ==
    /\ converter.pc = "idle"
    /\ \E handler \in ConvertingHandlers, format \in ResponseFormats,
          list \in ResultImageLists :
          ConvertStart(handler, format, list)

ConverterNext ==
    \/ ConvertCall
    \/ \E downloads \in BOOLEAN : ConvertImage(downloads)
    \/ ConvertDone

SpecConverter == Init /\ [][ConverterNext]_vars

(***************************************************************************)
(* The provider registry on its own: providers are enabled, disabled,      *)
(* unregistered and registered again between calls of detectProvider.      *)
(***************************************************************************)
RegistryFrame ==
    /\ UNCHANGED <<classifier, compressor, normalizer, converter, fetcher>>
    /\ UNCHANGED systemVars
    /\ UNCHANGED handlerVars

Enable(name) ==
    /\ registry' = [registry EXCEPT !.registrations = SetEnabled(@, name, TRUE)]
    /\ RegistryFrame

Disable(name) ==
    /\ registry' = [registry EXCEPT !.registrations = SetEnabled(@, name, FALSE)]
    /\ RegistryFrame

Unregister(name) ==
    /\ registry' = [registry EXCEPT !.registrations = unregister(@, name)]
    /\ RegistryFrame

\* register(provider) with the default enabled = true
Register(name) ==
    /\ registry' = [registry EXCEPT !.registrations = register(@, name, TRUE)]
    /\ RegistryFrame

DetectCall(key) ==
    /\ registry' =
          [registry EXCEPT
              !.call = [pc |-> "returned", apiKey |-> key,
                        result |-> detectProvider(registry.registrations, key)]]
    /\ RegistryFrame

\* The caller has used the result.
DetectReturn ==
    /\ registry.call.pc = "returned"
    /\ registry' = [registry EXCEPT !.call = NoDetection]
    /\ RegistryFrame

RegistryNext ==
    \/ registry.call.pc = "idle" /\ \E name \in ProviderNames : Enable(name)
    \/ registry.call.pc = "idle" /\ \E name \in ProviderNames : Disable(name)
    \/ registry.call.pc = "idle" /\ \E name \in ProviderNames : Unregister(name)
    \/ registry.call.pc = "idle" /\ \E name \in ProviderNames : Register(name)
    \/ registry.call.pc = "idle" /\ \E key \in ApiKeys : DetectCall(key)
    \/ DetectReturn

SpecRegistry == Init /\ [][RegistryNext]_vars

(***************************************************************************)
(* The images-generation endpoint with the key and the configuration that  *)
(* its routing reads (edits.ts:348-411): systemConfig.modes,               *)
(* systemConfig.globalAccessKey, the Authorization header and the          *)
(* registry.  One request is followed from its arrival to its response;    *)
(* providers are disabled and enabled before it arrives.                   *)
(***************************************************************************)
\* systemConfig.globalAccessKey is not set (undefined or the empty string).
NoGlobalKey == [prefix |-> "", form |-> "unset", length |-> 0]

\* The keys of requests: none, one that each modelled provider's predicate
\* accepts, and one that no predicate accepts.
RequestKeys ==
    {EmptyKey,
     [prefix |-> "", form |-> "uuid", length |-> 36],
     [prefix |-> "", form |-> "alnum", length |-> 30],
     [prefix |-> "ms-", form |-> "other", length |-> 36],
     [prefix |-> "", form |-> "other", length |-> 36]}

\* The configured access key: unset, a string of letters and digits, or a
\* string that holds other characters as well.
GlobalAccessKeys ==
    {NoGlobalKey,
     [prefix |-> "", form |-> "alnum", length |-> 30],
     [prefix |-> "", form |-> "other", length |-> 36]}

\* The credentials a request may present when gak is configured: the
\* configured key itself (token), or another string of any shape.
Credentials(gak) ==
    [key : RequestKeys, token : {FALSE}]
    \cup (IF gak = NoGlobalKey THEN {} ELSE {[key |-> gak, token |-> TRUE]})

\* !(systemConfig.globalAccessKey && apiKey !== systemConfig.globalAccessKey)
GlobalOk(gak, cred) == gak = NoGlobalKey \/ cred.token

Enabled(regs) == {regs[i].name : i \in {j \in DOMAIN regs : regs[j].enabled}}

RouteRequest(modes, gak, cred, model, hasPrompt) ==
    LET detected == detectProvider(registry.registrations, cred.key)
    IN  /\ ImagesGenerationsStart(modes, detected, GlobalOk(gak, cred), model, hasPrompt)
        /\ routing' = [pc |-> "routed", modes |-> modes, globalAccessKey |-> gak,
                       credential |-> cred, model |-> model,
                       enabled |-> Enabled(registry.registrations)]

RoutingNext ==
    \/ /\ pc = "idle"
       /\ \E modes \in ModesSet, gak \in GlobalAccessKeys :
            \E cred \in Credentials(gak) :
              LET route == Route(modes, detectProvider(registry.registrations, cred.key),
                                 GlobalOk(gak, cred))
              IN  \E model \in BodyModels(route), hasPrompt \in BodyPrompts(route) :
                      RouteRequest(modes, gak, cred, model, hasPrompt)
    \/ /\ pc = "generating"
       /\ UNCHANGED routing
       /\ \E o \in Outcomes(provider) : ImagesGenerationsResume(o)
    \/ Tick /\ UNCHANGED routing
    \/ pc = "idle" /\ \E name \in Providers : Disable(name)
    \/ pc = "idle" /\ \E name \in Providers : Enable(name)

SpecRouting == Init /\ [][RoutingNext]_vars

(***************************************************************************)
(* fetchWithTimeout (utils/http.ts:23) and what its callers in a           *)
(* provider's generate do with its outcome.  A URL is modelled by what the *)
(* checks read: the spelling of its scheme, the kind of its host, and      *)
(* whether its path or query holds the name of an official domain.         *)
(***************************************************************************)
\* "http" stands for http and https in lower case, "HTTP" for the same
\* schemes spelled with capitals, which new URL and fetch accept as well.
HttpSchemes == {"http", "HTTP"}

\* official: a host under volces.com, gitee.com, modelscope.cn, hf.space or
\* pollinations.ai; dangerous: a name of DANGEROUS_HOSTNAMES; private: an
\* address of PRIVATE_IP_RANGES; public: any other host.
Hosts == {"official", "public", "dangerous", "private"}

DataUrl == [scheme |-> "data", host |-> "none", mentionsOfficial |-> FALSE]

Urls == [scheme : HttpSchemes, host : Hosts, mentionsOfficial : BOOLEAN] \cup {DataUrl}

\* The URLs of the providers' configuration.
ApiUrls == [scheme : {"http"}, host : {"official"}, mentionsOfficial : {FALSE}]

\* url.includes(<official domain>), on the whole string
isOfficialApi(url) == url.host = "official" \/ url.mentionsOfficial

isSafeHostname(hostname) == hostname \notin {"dangerous", "private"}

isSafeUrl(url) == url.scheme \in HttpSchemes /\ isSafeHostname(url.host)

\* fetchWithTimeout throws before it calls fetch.
Refused(url) == url.scheme = "http" /\ ~isOfficialApi(url) /\ ~isSafeUrl(url)

\* The callers: the request a provider's generate sends to the provider's
\* API, and the download of a result image that Doubao gave by URL
\* (urlToBase64, doubao.ts:194).
Callers ==
    [provider : Providers, purpose : {"api"}]
    \cup {[provider |-> "Doubao", purpose |-> "download"]}

CallerUrls(caller) == IF caller.purpose = "api" THEN ApiUrls ELSE Urls

\* the abort has no effect on the pending fetch, which resolves
AbortedFetch_Resolves == [t |-> "ok", n |-> 1]

\* controller.abort() rejects the pending fetch.
AbortedFetch == [t |-> "neterr"]

\* What generate returns after the call settled with outcome o: the result
\* of the API request, or, for the download, a success whose image is
\* base64 when the download succeeded and the URL when it threw.
Generated(caller, o) ==
    IF caller.purpose = "api" THEN generate(caller.provider, o)
    ELSE Succeeded(1)

FetcherFrame ==
    /\ UNCHANGED <<classifier, compressor, normalizer, converter, registry>>
    /\ UNCHANGED systemVars
    /\ UNCHANGED handlerVars

\* fetchWithTimeout from its call to the await of fetch, or to its throw.
FetchCall(caller, url) ==
    /\ fetcher' =
          [pc |-> IF Refused(url) THEN "settled" ELSE "fetching",
           caller |-> caller, url |-> url, sent |-> ~Refused(url),
           timer |-> ~Refused(url), aborted |-> FALSE, timedOut |-> FALSE,
           outcome |-> IF Refused(url) THEN [t |-> "neterr"] ELSE NoOutcome]
    /\ FetcherFrame

\* fetch settles before the timer fires; finally clears the timer.
FetchSettles(o) ==
    /\ fetcher.pc = "fetching"
    /\ fetcher' = [fetcher EXCEPT !.pc = "settled", !.timer = FALSE, !.outcome = o]
    /\ FetcherFrame

\* The timer fires: controller.abort().
TimeoutFires ==
    /\ fetcher.pc = "fetching"
    /\ fetcher.timer
    /\ fetcher' = [fetcher EXCEPT !.pc = "settled", !.timer = FALSE,
                                  !.aborted = TRUE, !.timedOut = TRUE,
                                  !.outcome = AbortedFetch]
    /\ FetcherFrame

\* generate runs on to its return or its throw.
GenerateReturns ==
    /\ fetcher.pc = "settled"
    /\ fetcher' =
          [pc |-> "generated", caller |-> fetcher.caller, url |-> fetcher.url,
           sent |-> fetcher.sent, timedOut |-> fetcher.timedOut,
           aborted |-> fetcher.aborted,
           result |-> Generated(fetcher.caller, fetcher.outcome),
           answer |-> "none"]
    /\ FetcherFrame

\* The handler gets the result, or catches the exception and answers 500
\* (edits.ts:603-619).
HandlerContinues ==
    /\ fetcher.pc = "generated"
    /\ fetcher' = [fetcher EXCEPT
                      !.pc = "answered",
                      !.answer = IF fetcher.result.threw THEN "error_response"
                                 ELSE "result"]
    /\ FetcherFrame

FetchDone ==
    /\ fetcher.pc = "answered"
    /\ fetcher' = IdleFetcher
    /\ FetcherFrame

FetcherNext ==
    \/ /\ fetcher.pc = "idle"
       /\ \E caller \in Callers : \E url \in CallerUrls(caller) : FetchCall(caller, url)
    \/ /\ fetcher.pc = "fetching"
       /\ \E o \in SyncOutcomes : FetchSettles(o)
    \/ TimeoutFires
    \/ GenerateReturns
    \/ HandlerContinues
    \/ FetchDone

SpecFetcher == Init /\ [][FetcherNext]_vars

\* The runtime runs the continuation of a settled promise.
SpecFetcherLive ==
    /\ Init
    /\ [][FetcherNext]_vars
    /\ WF_vars(GenerateReturns)
    /\ WF_vars(HandlerContinues)

(***************************************************************************)
(* Properties                                                              *)
(***************************************************************************)
\* The result provider.generate returned in the latest call.
LastResult == generate(provider, lastOutcome)

\* The latest call of generate returned a result (it did not throw) and ...
AttemptSucceeded == lastOutcome.t # "none" /\ LastResult.success
AttemptFailed ==
    lastOutcome.t # "none" /\ ~LastResult.success /\ ~LastResult.threw
AttemptThrew == lastOutcome.t # "none" /\ LastResult.threw

\* C1: one request calls provider.generate at most 3 times in backend mode
\* and at most once in relay mode, whatever the upstream answers.
C1_GenerateCallsBounded ==
    genCalls <= (IF usingBackendMode THEN 3 ELSE 1)

C1_Witness ==
    /\ usingBackendMode /\ genCalls = 3 /\ pc = "done" /\ respStatus = 500

\* What the upstream signalled with a failure: rate limiting by a 429,
\* a rejected credential by a 401 or 403, anything else otherwise.
UpstreamKind(o) ==
    IF o.t \in {"http", "pollabort"} /\ o.status = 429 THEN "rate_limit"
    ELSE IF o.t \in {"http", "pollabort"} /\ o.status \in {401, 403} THEN "auth_error"
    ELSE "other"

\* C2: in backend mode a failed attempt is reported to the pool with the
\* kind of the upstream failure: rate_limit for a 429, auth_error for a 401
\* or 403, other for every other failure.
C2_ReportKindMatchesUpstream ==
    (usingBackendMode /\ AttemptFailed)
        => lastReport.kind = UpstreamKind(lastOutcome)

\* C3: in backend mode, when the pool yields no credential on attempt 1, the
\* request fails at once with the pool-exhausted error (503), generate is
\* not called and nothing is reported to the pool.
C3_PoolExhaustedOnFirstAttempt ==
    poolMissAt = 1 =>
        /\ pc = "done"
        /\ respStatus = 503
        /\ respError.id = "no_available_keys"
        /\ genCalls = 0
        /\ numReports = 0

C3_Witness ==
    /\ poolMissAt = 1
    /\ provider = pooled
    /\ \A k \in Keys : pool[k].health = "auth_rejected" /\ pool[k].cooldown > 0

\* C4: in backend mode, when the pool yields no credential on attempt 2 or
\* 3, the loop stops without another call of generate and the request fails
\* with the error of the last failed attempt, not with pool-exhausted.
C4_PoolExhaustedOnRetry ==
    poolMissAt >= 2 =>
        /\ pc = "done"
        /\ genCalls = poolMissAt - 1
        /\ AttemptFailed
        /\ respStatus = 500
        /\ respError = LastResult.error
        /\ respError.id # "no_available_keys"

C4_Witness ==
    /\ poolMissAt = 2 /\ genCalls = 1 /\ respStatus = 500

\* C5: in backend mode, when an attempt succeeds, success is reported to the
\* pool once, for the credential of that attempt, no further attempt is
\* made and the attempt's result is the one returned.
C5_SuccessReportedOnceAndReturned ==
    (usingBackendMode /\ AttemptSucceeded) =>
        /\ pc = "done"
        /\ lastReport = [key |-> apiKey, kind |-> "success"]
        /\ numReports = attempts
        /\ genCalls = attempts
        /\ pool[apiKey] = HealthyCredential
        /\ respStatus = 200
        /\ respData = LastResult.images

C5_Witness ==
    /\ usingBackendMode /\ AttemptSucceeded /\ attempts = 2
    /\ lastSelected.key = apiKey /\ respData > 0

\* C6: in relay mode the first upstream failure ends the request as failed,
\* there is no second call of generate and no pool operation at any point
\* of the request.
C6_RelayNeverRetriesNorUsesPool ==
    (endpoint = "generations" /\ ~usingBackendMode) =>
        /\ genCalls <= 1
        /\ poolGets = 0 /\ poolMissAt = 0 /\ numReports = 0
        /\ lastSelected = NoSelection /\ lastReport = NoReport
        /\ (AttemptFailed \/ AttemptThrew) => (pc = "done" /\ respStatus = 500)

C6_Witness ==
    /\ endpoint = "generations" /\ ~usingBackendMode /\ provider \in Providers
    /\ AttemptFailed /\ genCalls = 1 /\ pc = "done"

\* C7: in backend mode a failed attempt k < 3 is followed by attempt k + 1
\* whenever the pool yields a credential, whatever the failure: a request
\* that ends after fewer than 3 calls of generate ended on a success or on
\* a pool that yielded no credential.
C7_LoopStopsEarlyOnlyOnSuccessOrEmptyPool ==
    (usingBackendMode /\ pc = "done" /\ attempts >= 1 /\ genCalls < 3)
        => (AttemptSucceeded \/ poolMissAt > 0)

\* C8: a request that fails validation is answered 400 and never retried:
\* generate is not called and no credential is acquired from or reported to
\* the pool.
C8_ValidationFailureIsTerminal ==
    (validation \notin {"none", "ok"}) =>
        /\ pc = "done"
        /\ respStatus = 400
        /\ genCalls = 0
        /\ poolGets = 0 /\ poolMissAt = 0 /\ numReports = 0
        /\ lastSelected = NoSelection

C8_Witness ==
    /\ usingBackendMode /\ provider = pooled
    /\ validation = "prompt_or_image_required" /\ respStatus = 400

\* C9: validation precedes normalization: for a request that fails
\* validation the normalizer has sent no HEAD and no GET for an input image.
C9_NoProbeBeforeValidationFailure ==
    (validation \notin {"none", "ok"}) => probes = 0

\* C10: getNextAvailableKey never hands out a credential that is not healthy
\* and whose cooldown has not elapsed.
C10_NoCoolingCredentialHandedOut ==
    lastSelected.key # NoKey => (lastSelected.healthy \/ lastSelected.cooldown = 0)

\* A credential that had been marked and whose cooldown was over was handed
\* out, while another one, still cooling, was passed over.
C10_Witness ==
    /\ lastSelected.key # NoKey /\ ~lastSelected.healthy
    /\ \E k \in Keys : pool[k].health # "healthy" /\ pool[k].cooldown > 0

C13_ReportsIdempotentUnderReplay ==
    \A k \in Keys :
        /\ reportKeySuccess(reportKeySuccess(pool, k), k) = reportKeySuccess(pool, k)
        /\ \A kind \in ReportKinds :
              reportKeyError(reportKeyError(pool, k, kind), k, kind)
                  = reportKeyError(pool, k, kind)

TimedOut ==
    /\ poller.pc = "done" /\ ~poller.result.success /\ ~poller.result.threw
    /\ poller.result.error.id \in {"gitee_async_timeout", "modelscope_task_timeout"}

\* The poll loop was ended by the invalid-response streak.
StreakAbort ==
    /\ poller.pc = "done" /\ ~poller.result.success /\ ~poller.result.threw
    /\ poller.result.error.id = "modelscope_poll_abnormal"

\* The last status request was answered, and without a terminal status.
LastNotTerminal ==
    \/ poller.last.t = "http"
    \/ poller.last.t = "json" /\ poller.last.status \in {"pending", "PENDING", "absent"}

\* C14: each poll loop terminates: it makes at most maxAttempts passes (60
\* for Gitee, 120 for ModelScope), and a loop that was not ended by a pass
\* (no terminal status, no abort) ends the task as a timeout failure after
\* maxAttempts passes.
C14_PollLoopTerminatesWithinMaxAttempts ==
    /\ poller.pollingAttempts <= PollMaxAttempts(poller.provider)
    /\ poller.pc = "polling" => poller.pollingAttempts < PollMaxAttempts(poller.provider)
    /\ (poller.pc = "done" /\ LastNotTerminal /\ ~StreakAbort) =>
          /\ TimedOut
          /\ poller.pollingAttempts = PollMaxAttempts(poller.provider)

C14_Witness ==
    /\ poller.provider = "ModelScope" /\ TimedOut
    /\ poller.pollingAttempts = ModelScopeMaxAttempts
    /\ poller.onlyPending /\ poller.last.t = "json" /\ poller.last.status = "PENDING"

\* The scenario of C15: Gitee's poll loop has made three passes, the first
\* two answered pending, the third success with the output under data.url.
ThirdPollSucceedsWithDataUrl ==
    /\ poller.provider = "Gitee"
    /\ poller.pollingAttempts = 3
    /\ poller.onlyPending
    /\ poller.last.t = "json" /\ poller.last.status = "success"
    /\ \/ poller.last.output = "absent" /\ poller.last.data = "url"
       \/ poller.last.output = "nested_url"

\* C15 as stated: when the first two polls report pending and the third
\* success with the output nested as data.url, the request succeeds after
\* exactly 3 polls and the final result contains that URL.
C15_ResultContainsTheUrl ==
    ThirdPollSucceedsWithDataUrl =>
        /\ poller.pc = "done"
        /\ poller.result.success
        /\ poller.pollingAttempts = 3
        /\ poller.result.images = <<"url">>

\* C15, amended: in that scenario the request succeeds after exactly 3 polls
\* and the final result holds the one image of that URL: the base64 of its
\* content when the download succeeds, the URL itself when it fails.
C15_ResultContainsTheImageOfTheUrl ==
    ThirdPollSucceedsWithDataUrl =>
        /\ poller.pc = "done"
        /\ poller.result.success
        /\ poller.pollingAttempts = 3
        /\ poller.result.images = IF poller.downloaded THEN <<"b64_json">> ELSE <<"url">>

C15_Witness ==
    /\ ThirdPollSucceedsWithDataUrl
    /\ poller.last.output = "absent" /\ poller.last.data = "url"
    /\ poller.downloaded
    /\ poller.result.success /\ poller.result.images = <<"b64_json">>

\* C16: for each async provider, a run of consecutive unparseable or invalid
\* poll responses longer than the invalid-response threshold ends the task
\* as failed before maxAttempts polls have been made.
C16_InvalidRunEndsTaskBeforeMaxAttempts ==
    poller.invalidRun > InvalidStreakLimit =>
        /\ poller.pc = "done"
        /\ ~poller.result.success
        /\ poller.pollingAttempts < PollMaxAttempts(poller.provider)

\* C17: a failed poll request (an HTTP error status, a transport error or a
\* timeout of the status request) is inconclusive: it does not by itself
\* end the task as failed; the loop ends after such a pass only by the
\* invalid-response streak or by the timeout after the last pass.
C17_FailedPollRequestIsInconclusive ==
    (poller.pc = "done" /\ poller.last.t \in {"http", "neterr"})
        => (TimedOut \/ StreakAbort)

\* C18: a poll response that reports success without a recognizable output
\* image ends the task as a failure: a success never has an empty image
\* list.
C18_SuccessHasAnImage ==
    (poller.pc = "done" /\ poller.result.success)
        => Len(poller.result.images) > 0

\* C19: on a poll response whose status is failure or cancelled the poller
\* stops at once: no further status request is sent and the request fails
\* with that terminal state.
C19_FailureOrCancelledStopsThePoller ==
    (poller.last.t = "json"
        /\ poller.last.status \in {"failure", "cancelled", "FAILED", "CANCELED"})
      => (poller.pc = "done" /\ ~poller.result.success /\ ~TimedOut)

\* The message is built from what the upstream or the runtime said: the
\* message of an exception (fetch_error), the text of the last failed
\* status response (modelscope_poll_abnormal), the task's own failure
\* reason (modelscope_task_failed).
CarriesRawDiagnostics(msg) ==
    /\ ~msg.friendly
    /\ msg.id \in {"fetch_error", "modelscope_poll_abnormal", "modelscope_task_failed"}

\* C20: every failure message returned to the caller is a canonical friendly
\* message: raw upstream diagnostic text (response bodies, task-status JSON,
\* exception messages) never appears in the error an endpoint returns.
C20_NoRawDiagnosticsInResponse ==
    (pc = "done" /\ respStatus >= 400) => ~CarriesRawDiagnostics(respError)

(***************************************************************************)
(* The error classifier                                                    *)
(***************************************************************************)
\* C21: a raw error body that contains a rate-limit keyword ("rate limit")
\* is classified as rate_limit, whatever the status code and whatever else
\* the body contains.
C21_RateLimitBodyIsRateLimit ==
    (classifier.pc = "classified" /\ "rateLimit" \in BodyKeywords(classifier.body))
        => classifier.errorType = "rate_limit"

\* The order of the keyword classes and the kind each of them stands for.
Precedence ==
    <<"noAvailableKey", "rateLimit", "databaseError", "moderation", "timeout",
      "badRequest">>

KindOfClass(class) ==
    CASE class = "noAvailableKey" -> "no_available_key"
      [] class = "rateLimit" -> "rate_limit"
      [] class = "databaseError" -> "internal_error"
      [] class = "moderation" -> "moderation_blocked"
      [] class = "timeout" -> "timeout"
      [] class = "badRequest" -> "bad_request"

KindOfStatus(statusCode) ==
    IF statusCode = 400 THEN "bad_request"
    ELSE IF statusCode \in {500, 502, 503} THEN "internal_error"
    ELSE IF statusCode \in {408, 504} THEN "timeout"
    ELSE IF statusCode = 429 THEN "rate_limit"
    ELSE "unknown"

FirstMatch(text, statusCode) ==
    LET hits == {i \in DOMAIN Precedence : Precedence[i] \in text}
    IN  IF hits # {}
        THEN KindOfClass(Precedence[CHOOSE i \in hits : \A j \in hits : i <= j])
        ELSE KindOfStatus(statusCode)

\* C22: for every combination of keyword classes in the classified text and
\* every status code, the kind is the first match in the order credential
\* exhaustion, rate limit, datastore error, moderation, timeout, bad request,
\* then the status code (400; 500, 502, 503; 408, 504; 429), else unknown.
C22_ClassificationIsFirstMatch ==
    classifier.pc = "classified"
        => classifier.errorType = FirstMatch(classifier.text, classifier.statusCode)

\* Two keyword classes are present and the earlier one decided, and the
\* status code would have said something else.
C22_Witness ==
    /\ classifier.pc = "classified"
    /\ classifier.text = {"rateLimit", "moderation"}
    /\ classifier.statusCode = 504
    /\ classifier.errorType = "rate_limit"

\* The call and the one before it classified to the same kind and had the
\* same provider.
SameKindAsBefore ==
    /\ classifier.pc = "classified"
    /\ classifier.before.pc = "returned"
    /\ classifier.before.errorType = classifier.errorType
    /\ classifier.before.provider = classifier.provider

ResultSources == [j \in DOMAIN normalizer.results |-> normalizer.results[j].src]

\* The positions of the entries that are not the empty string.
NonEmptyEntries ==
    {i \in DOMAIN normalizer.images : normalizer.images[i].kind # "empty"}

C25_NormalizationNeverThrows ==
    normalizer.pc # "threw"

\* C26: the result entry of an input image that is larger than maxBytes is
\* no larger than the input image.
C26_OversizedImageNeverGrows ==
    normalizer.pc # "idle"
        => \A j \in DOMAIN normalizer.results :
              LET entry == normalizer.results[j]
                  img == normalizer.images[entry.src]
              IN  img.size > MaxBytes => entry.size <= img.size

\* C27: an input image (URL or base64) of at most maxBytes is in the result
\* as it was given.
C27_SmallImagePassesThroughUnchanged ==
    /\ normalizer.pc # "idle"
          => \A j \in DOMAIN normalizer.results :
                LET entry == normalizer.results[j]
                IN  normalizer.images[entry.src].size <= MaxBytes
                        => entry.form = "input"
    /\ normalizer.pc = "returned"
          => \A i \in NonEmptyEntries :
                normalizer.images[i].size <= MaxBytes
                    => \E j \in DOMAIN normalizer.results : ResultSources[j] = i

\* A URL whose image was downloaded (no usable HEAD answer is needed for it)
\* and base64 text, both of exactly maxBytes, came through.
C27_Witness ==
    /\ normalizer.pc = "returned"
    /\ Len(normalizer.results) = 2
    /\ normalizer.images[1].kind = "url"
    /\ normalizer.images[2].kind = "base64"
    /\ \A i \in 1..2 : /\ normalizer.images[i].size = MaxBytes
                       /\ normalizer.results[i].form = "input"

\* The width after n resizes to 85%.
RECURSIVE Shrunk(_, _)
Shrunk(width, n) ==
    IF n = 0 THEN width
    ELSE LET w == (Shrunk(width, n - 1) * 85) \div 100 IN IF w < 1 THEN 1 ELSE w

SmallestSeen == CHOOSE e \in compressor.seen : \A f \in compressor.seen : e <= f

\* The loop runs at most 6 passes of the 7 qualities, on a width of 85% of
\* the width of the pass before, and goes on only while no candidate fits.
LoopIsBounded ==
    compressor.pc # "idle"
        => /\ compressor.pass <= MaxPasses
           /\ compressor.encodes <= MaxPasses * Len(qualities)
           /\ compressor.firstWidth # 0
                 => compressor.width = Shrunk(compressor.firstWidth, compressor.pass)
           /\ compressor.pc = "encoding"
                 => /\ compressor.pass < MaxPasses
                    /\ \A e \in compressor.seen : e > TargetBytes

\* What the loop returns when every encodeJPEG call returned a candidate:
\* the candidate that fits, which is the first one that does, or else the
\* smallest candidate seen.
ReturnsFitOrSmallest ==
    IF \E e \in compressor.seen : e <= TargetBytes
    THEN /\ compressor.result.form = "jpeg"
         /\ compressor.result.size <= TargetBytes
         /\ compressor.result.size \in compressor.seen
    ELSE /\ compressor.seen # {}
         /\ compressor.result = Jpeg(SmallestSeen)

\* C28 as stated: the loop ends within 6 passes of the 7 qualities, each
\* pass on 85% of the width before, and returns the first candidate of at
\* most targetBytes or, if there is none, the smallest candidate seen.
C28_LoopReturnsFitOrSmallest ==
    /\ LoopIsBounded
    /\ (compressor.pc = "done" /\ compressor.firstWidth # 0) => ReturnsFitOrSmallest

\* C28: the same, but when an encodeJPEG call raises an error the loop ends
\* with the image it was given.
C28_LoopReturnsFitOrSmallestUnlessEncodeFails ==
    /\ LoopIsBounded
    /\ (compressor.pc = "done" /\ compressor.firstWidth # 0)
          => IF compressor.encodeFailed
             THEN compressor.result = Unchanged
             ELSE ReturnsFitOrSmallest

\* All 42 encodings were made and none fits; the smallest one, which was
\* not the first, is returned.
C28_Witness ==
    /\ compressor.pc = "done"
    /\ compressor.encodes = MaxPasses * Len(qualities)
    /\ compressor.pass = MaxPasses
    /\ compressor.width < compressor.firstWidth
    /\ compressor.seen = {MaxBytes, MaxBytes + 1, MaxBytes + 2}
    /\ compressor.result = Jpeg(MaxBytes)

\* The results the normalizer takes from the compressor are the results the
\* compressor has.
CompressorResultIsAnOutcome ==
    compressor.pc = "done" => compressor.result \in CompressOutcomes(compressor.dataUri)

(***************************************************************************)
(* The results of the providers                                            *)
(***************************************************************************)
\* C29: a GenerationResult that generate returns has exactly one of images
\* and error: it is a success with an image list and no error, or a failure
\* with an error message and no images.
C29_ResultHasImagesOrError ==
    (lastOutcome.t # "none" /\ ~LastResult.threw)
        => \/ /\ LastResult.success
              /\ LastResult.fields = {"images"}
              /\ LastResult.error = NoError
           \/ /\ ~LastResult.success
              /\ LastResult.fields = {"error"}
              /\ LastResult.error # NoError
              /\ LastResult.images = 0

\* A provider answered one call of a request with a failure and the next one
\* with images.
C29_Witness ==
    /\ AttemptSucceeded
    /\ LastResult.images > 0
    /\ lastError # NoError
    /\ genCalls = 2

(***************************************************************************)
(* The representation of the images of a response                          *)
(***************************************************************************)
InRequestedRepresentation(entry) ==
    IF converter.format = "url"
    THEN entry.url /\ ~entry.b64_json
    ELSE entry.b64_json /\ ~entry.url

\* C30 as stated: every entry of the data list of a response has the field
\* of the requested response_format and not the other one.
C30_EveryEntryInRequestedRepresentation ==
    converter.pc # "idle"
        => \A j \in DOMAIN converter.data :
              InRequestedRepresentation(converter.data[j])

\* C30: every entry of the data list has the field of the requested
\* response_format and not the other one, except that with b64_json an
\* image the provider gave as a URL only keeps its url, and has no
\* b64_json, when its download fails.
C30_RequestedRepresentationUnlessDownloadFails ==
    converter.pc # "idle"
        => \A j \in DOMAIN converter.data :
              LET entry == converter.data[j]
                  img == converter.images[entry.src]
              IN  IF entry.fallback
                  THEN /\ converter.format = "b64_json"
                       /\ img.url /\ ~img.b64_json
                       /\ entry.url /\ ~entry.b64_json
                  ELSE InRequestedRepresentation(entry)

\* A response to a b64_json request whose result had a URL image, which was
\* downloaded, and an image with both fields.
C30_Witness ==
    /\ converter.pc = "responded"
    /\ converter.format = "b64_json"
    /\ Len(converter.data) = 2
    /\ converter.images[1] = [url |-> TRUE, b64_json |-> FALSE]
    /\ converter.images[2] = [url |-> TRUE, b64_json |-> TRUE]
    /\ \A j \in 1..2 : converter.data[j] = Base64Entry(j)

(***************************************************************************)
(* Provider detection                                                      *)
(***************************************************************************)
\* The providers that are registered and enabled.
EnabledProviders ==
    {registry.registrations[i].name :
        i \in {j \in DOMAIN registry.registrations : registry.registrations[j].enabled}}

\* The first provider of the fixed order that is enabled and accepts the key.
FirstInFixedOrder(key) ==
    LET accepting ==
            {i \in DOMAIN builtinProviders :
                /\ builtinProviders[i] \in EnabledProviders
                /\ detectApiKey(builtinProviders[i], key)}
    IN  IF accepting = {} THEN NoProvider
        ELSE builtinProviders[CHOOSE i \in accepting : \A j \in accepting : i <= j]

\* C31: detectProvider returns the first enabled provider, in the order
\* Doubao, Gitee, ModelScope, HuggingFace, Pollinations, whose predicate
\* accepts the key, and none for the empty key or when no enabled provider
\* accepts the key; it never returns a disabled provider.
C31_DetectsFirstEnabledInFixedOrder ==
    registry.call.pc = "returned" =>
        /\ registry.call.result =
              (IF registry.call.apiKey = EmptyKey THEN NoProvider
               ELSE FirstInFixedOrder(registry.call.apiKey))
        /\ registry.call.result \in EnabledProviders \cup {NoProvider}

\* A key that ModelScope accepts is detected while Doubao is disabled and
\* the map's order is no longer the order of construction.
C31_Witness ==
    /\ registry.call.pc = "returned"
    /\ registry.call.result = "ModelScope"
    /\ "Doubao" \notin EnabledProviders
    /\ registry.registrations # registerBuiltinProviders
    /\ Len(registry.registrations) = Len(builtinProviders)

(***************************************************************************)
(* Routing of the images-generation endpoint                               *)
(***************************************************************************)
\* C32: with backend mode enabled, a request that presents the configured
\* gateway access token is handled in backend mode: its provider is the one
\* of the model field and the credential of every upstream call comes from
\* the pool, never from the caller.
C32_TokenIsHandledInBackendMode ==
    (routing.pc = "routed" /\ routing.modes.backend /\ routing.credential.token) =>
        /\ pc = "done" => respStatus # 403
        /\ pc # "idle" => usingBackendMode
        /\ genCalls > 0 => (provider = routing.model /\ apiKey \in Keys)

\* The request reached a provider adapter or the pool.
Reached == genCalls > 0 \/ poolGets > 0 \/ poolMissAt > 0

\* The key matches the pattern of a provider that was enabled when the
\* request was routed.
MatchesEnabledPattern ==
    \E name \in routing.enabled : detectApiKey(name, routing.credential.key)

Admitted ==
    \/ routing.modes.relay /\ MatchesEnabledPattern
    \/ /\ routing.modes.backend
       /\ ~MatchesEnabledPattern
       /\ (routing.globalAccessKey = NoGlobalKey \/ routing.credential.token)

RejectionStatus ==
    IF ~routing.modes.relay /\ ~routing.modes.backend THEN 503
    ELSE IF MatchesEnabledPattern /\ ~routing.modes.relay THEN 403
    ELSE 401

\* C36: a provider adapter or the pool is reached only by a request with
\* relay mode on and a key of an enabled provider's pattern, or with backend
\* mode on, a key of no such pattern and the global access key unset or
\* equal to the key; every other request is answered 503 (both modes off),
\* 403 (provider-pattern key, relay off) or 401 without such a call.
C36_OnlyAdmittedRequestsReachProviderOrPool ==
    routing.pc = "routed" =>
        /\ Reached => Admitted
        /\ ~Admitted =>
              (pc = "done" /\ respStatus = RejectionStatus /\ ~Reached)

\* A key of an enabled provider's pattern, which is not the configured
\* access key, is answered 403 with relay mode off and backend mode on.
C36_Witness ==
    /\ routing.pc = "routed"
    /\ ~Admitted
    /\ MatchesEnabledPattern
    /\ routing.modes.backend
    /\ ~routing.credential.token
    /\ pc = "done"
    /\ respStatus = 403

(***************************************************************************)
(* fetchWithTimeout                                                        *)
(***************************************************************************)
\* C33: when the timeout of a call made through fetchWithTimeout fires, the
\* call ends in a failure result, never in a success.
C33_TimedOutCallEndsAsFailure ==
    (fetcher.pc \in {"generated", "answered"} /\ fetcher.timedOut) =>
        ~fetcher.result.success

\* The timeout fired in a request to a provider's API.
ApiCallTimedOut ==
    /\ fetcher.pc \in {"settled", "generated", "answered"}
    /\ fetcher.caller.purpose = "api"
    /\ fetcher.timedOut

\* generate returned success = false, or threw and the handler answered with
\* an error response.
EndedAsFailure ==
    /\ fetcher.pc = "answered"
    /\ ~fetcher.result.success
    /\ fetcher.answer = (IF fetcher.result.threw THEN "error_response" ELSE "result")

\* C33 (amended): when the timeout fires in a request that generate sends to
\* the provider's API, the fetch is aborted and the generate call ends in a
\* failure (success = false, or an exception answered with an error
\* response), never in a success, and it does end.
C33_TimedOutApiCallEndsAsFailure ==
    /\ [](ApiCallTimedOut =>
            /\ fetcher.aborted
            /\ fetcher.pc \in {"generated", "answered"} => ~fetcher.result.success)
    /\ (ApiCallTimedOut ~> (ApiCallTimedOut /\ EndedAsFailure))

\* The submit request of ModelScope timed out, generate threw and the
\* handler answered with an error response.
C33_Witness ==
    /\ ApiCallTimedOut
    /\ EndedAsFailure
    /\ fetcher.caller.provider = "ModelScope"
    /\ fetcher.result.threw

\* C38: fetchWithTimeout calls fetch for no http(s) URL whose host is
\* loopback, private or a metadata service, whatever the path and the query.
C38_NoRequestToPrivateOrDangerousHost ==
    (fetcher.pc # "idle" /\ fetcher.sent) =>
        ~(fetcher.url.scheme \in HttpSchemes /\ ~isSafeHostname(fetcher.url.host))

(***************************************************************************)
(* Reports to the pool                                                     *)
(***************************************************************************)
\* C34: in backend mode every credential obtained from getNextAvailableKey
\* is reported exactly once, by reportKeySuccess or reportKeyError for that
\* credential, before the request completes, also when generate throws.
C34_EveryObtainedKeyIsReportedOnce ==
    (endpoint = "generations" /\ usingBackendMode) =>
        /\ pc = "generating" => numReports = poolGets - 1
        /\ pc = "done" =>
              /\ numReports = poolGets
              /\ poolGets > 0 => lastReport.key = apiKey

\* C35: a credential for which rate_limit was reported stays excluded from
\* selection until its cooldown elapses, whatever the requests still in
\* flight with that credential report afterwards: it becomes eligible again
\* only by the passing of time.
C35_RateLimitedStaysExcludedDespiteLateSuccess ==
    [][\A k \in Keys :
          (/\ pool[k].health = "rate_limited"
           /\ pool[k].cooldown > 0
           /\ Eligible(pool'[k]))
          => pool' = Elapse(pool)]_vars

(***************************************************************************)
(* The invalid-response streak of ModelScope's poll loop                   *)
(***************************************************************************)
\* C39: in ModelScope's poll loop the streak is the number of rounds in a
\* row, up to the latest, in which neither status request returned a valid
\* status; a valid status sets it to 0; the loop is ended by the streak
\* exactly when the streak reaches 6, so a task with 6 or more invalid
\* rounds that are not in a row is not ended by it.
C39_StreakCountsConsecutiveInvalidRounds ==
    (poller.provider = "ModelScope" /\ ~poller.result.threw) =>
        /\ poller.invalidResponseStreak = poller.invalidRun
        /\ (poller.last.t = "json" /\ poller.last.status # "absent") =>
              poller.invalidResponseStreak = 0
        /\ StreakAbort <=> poller.invalidResponseStreak = 6
        /\ poller.pc = "polling" => poller.invalidResponseStreak < 6

\* Six or more rounds without a valid status, not in a row: the task is
\* still polled, and the latest round reset the streak.
C39_Witness ==
    /\ poller.provider = "ModelScope"
    /\ poller.pc = "polling"
    /\ poller.invalidRounds >= 6
    /\ poller.invalidResponseStreak = 0
    /\ poller.last.t = "json" /\ poller.last.status = "PENDING"

\* C37: every response with status 200 carries at least one image: a
\* successful provider result whose image list is empty is not answered
\* as a success with an empty data list.
C37_SuccessResponseCarriesAnImage ==
    (pc = "done" /\ respStatus = 200) => respData >= 1

====
